---- MODULE Spec2Model ----
(***************************************************************************)
(* binance-cripto-alerts: the alert pipeline of the CLI (src/main.py,      *)
(* src/src/alert_manager.py, src/src/signal_detector.py) and the crossover *)
(* detectors of the CLI and of the serverless API                          *)
(* (src/api/utils/technical.py).                                           *)
(*                                                                         *)
(* Time.  A datetime is an integer number of clock ticks, TicksPerHour     *)
(* ticks to the hour.  An ISO-8601 string is the record [iso |-> t].       *)
(* Numbers.  A percentage is the exact rational [num |-> n, den |-> d],    *)
(* d > 0; a moving-average value is a natural number, NaN is the value     *)
(* NaN below.                                                              *)
(* Digest.  md5(json.dumps(key_data, sort_keys=True)) is modelled as the   *)
(* key_data record itself: a digest without collisions.                    *)
(***************************************************************************)
EXTENDS Integers, Sequences, FiniteSets, TLC

VARIABLES
    now,            \* the wall clock, datetime.now(), in ticks
    alert_file,     \* data/alert_history.json on disk
    alert_history,  \* AlertManager.alert_history of the running process
    sent_alerts,    \* AlertManager.sent_alerts of the running process
    pc,             \* "down": no process; "ready": CryptoAnalysisApp built;
                    \* "returned": run_analysis has returned
    results,        \* what the last run_analysis returned, with its trace
    tainted,        \* add_alerts_to_history was once called from outside the pipeline
    det,            \* one application of the crossover detectors
    call            \* one application of another function of the program

vars == <<now, alert_file, alert_history, sent_alerts, pc, results, tainted, det, call>>

\* ------------------------------------------------------------------ bounds

MaxDays == 1
TicksPerHour == 2
MaxHistory == 2
MaxEvents == 2
MaxLen == 4
MaxValue == 2
MaxRanked == 3
MaxPeriod == 3
MaxSymbols == 3
MaxFetchSeconds == 9
MaxClockSteps == 4
MaxRetries == 3

\* moving-average values are carried as integers, Scale to the unit
Scale == 1000

\* ------------------------------------------------------- program constants

HoursBack == 24
Lookback == 3

\* config/settings.py
MA_PERIODS == <<20, 50, 200>>

CROSSOVER_TYPES ==
    << [fast |-> 20, slow |-> 50, type |-> "SMA"],
       [fast |-> 50, slow |-> 200, type |-> "SMA"],
       [fast |-> 20, slow |-> 50, type |-> "EMA"] >>

\* api/utils/technical.py: the bars detect_crossovers asks for
MinBars == 200

\* api/market-summary.py, api/crossovers.py: the deadline of the loop in
\* seconds and the cap on the days of a request
Deadline == 8
DaysCap == 100

\* api/utils/binance_client.py: the largest limit of a klines request
KlinesMax == 1000

\* api/utils/binance_client.py: cache_duration, in seconds
CacheDuration == 300

\* config/settings.py: the arguments of the client's retry decorators
MAX_RETRIES == 3
RETRY_DELAY == 5

\* ----------------------------------------------------------------- helpers

Get(d, k, default) == IF k \in DOMAIN d THEN d[k] ELSE default

Hours(h) == h * TicksPerHour

StrftimeHour(t) == t \div TicksPerHour

IsoFormat(t) == [iso |-> t]

FromIsoFormat(s) == s.iso

Pct(n, d) == [num |-> n, den |-> d]

PctGt(p, k) == p.num > k * p.den

Range(s) == {s[i] : i \in DOMAIN s}

SeqsUpTo(S, n) == UNION {[1..k -> S] : k \in 0..n}

\* ------------------------------------------------- importance classifiers

\* the importance_score of classify_signal_importance before the tiers
ImportanceScore(crossover) ==
    LET strength == Get(crossover, "strength", "MINIMAL")
        ma_type == Get(crossover, "ma_type", "SMA")
        slow_period == Get(crossover, "slow_period", 50)
        percentage_diff == Get(crossover, "percentage_diff", Pct(0, 1))
        period_score == IF slow_period >= 200 THEN 3
                        ELSE IF slow_period >= 50 THEN 2 ELSE 1
        strength_score == IF strength = "STRONG" THEN 3
                          ELSE IF strength = "MEDIUM" THEN 2
                          ELSE IF strength = "WEAK" THEN 1 ELSE 0
        ema_score == IF ma_type = "EMA" THEN 1 ELSE 0
        diff_score == IF PctGt(percentage_diff, 5) THEN 2
                      ELSE IF PctGt(percentage_diff, 2) THEN 1 ELSE 0
    IN  period_score + strength_score + ema_score + diff_score

\* mutant: HIGH asks for more than 7
classify_signal_importance_Above7(crossover) ==
    LET importance_score == ImportanceScore(crossover)
    IN  IF importance_score > 7 THEN "HIGH"
        ELSE IF importance_score >= 4 THEN "MEDIUM" ELSE "LOW"

classify_signal_importance(crossover) ==
    LET importance_score == ImportanceScore(crossover)
    IN  IF importance_score >= 7 THEN "HIGH"
        ELSE IF importance_score >= 4 THEN "MEDIUM" ELSE "LOW"

\* mutant: the strength scores in the reverse order
DefaultScore_Reversed(crossover) ==
    LET strength == Get(crossover, "strength", "MINIMAL")
        slow_period == Get(crossover, "slow_period", 20)
        percentage_diff == Get(crossover, "percentage_diff", Pct(0, 1))
        strength_score == IF strength = "STRONG" THEN 0
                          ELSE IF strength = "MEDIUM" THEN 1
                          ELSE IF strength = "WEAK" THEN 2 ELSE 3
        period_score == IF slow_period >= 200 THEN 3
                        ELSE IF slow_period >= 50 THEN 2 ELSE 1
        diff_score == IF PctGt(percentage_diff, 5) THEN 2
                      ELSE IF PctGt(percentage_diff, 2) THEN 1 ELSE 0
    IN  strength_score + period_score + diff_score

\* the score of _classify_default_importance before the tiers
DefaultScore(crossover) ==
    LET strength == Get(crossover, "strength", "MINIMAL")
        slow_period == Get(crossover, "slow_period", 20)
        percentage_diff == Get(crossover, "percentage_diff", Pct(0, 1))
        strength_score == IF strength = "STRONG" THEN 3
                          ELSE IF strength = "MEDIUM" THEN 2
                          ELSE IF strength = "WEAK" THEN 1 ELSE 0
        period_score == IF slow_period >= 200 THEN 3
                        ELSE IF slow_period >= 50 THEN 2 ELSE 1
        diff_score == IF PctGt(percentage_diff, 5) THEN 2
                      ELSE IF PctGt(percentage_diff, 2) THEN 1 ELSE 0
    IN  strength_score + period_score + diff_score

\* mutant: the default policy with the tiers of the pipeline policy
_classify_default_importance_PipelineTiers(crossover) ==
    LET score == DefaultScore(crossover)
    IN  IF score >= 7 THEN "HIGH"
        ELSE IF score >= 4 THEN "MEDIUM" ELSE "LOW"

_classify_default_importance(crossover) ==
    LET score == DefaultScore(crossover)
    IN  IF score >= 6 THEN "HIGH"
        ELSE IF score >= 3 THEN "MEDIUM" ELSE "LOW"

\* importance_classifier_func(crossover) if one is supplied, else the default
Classify(importance_classifier_func, crossover) ==
    IF importance_classifier_func = "classify_signal_importance"
    THEN classify_signal_importance(crossover)
    ELSE _classify_default_importance(crossover)

\* ------------------------------------------------------- SignalDetector

ImportanceOrder(importance) ==
    IF importance = "HIGH" THEN 3 ELSE IF importance = "MEDIUM" THEN 2 ELSE 1

\* the sort key of x is at least the sort key of y (tuple comparison)
RankKeyGe(x, y) ==
    LET ix == ImportanceOrder(Get(x, "importance", "LOW"))
        iy == ImportanceOrder(Get(y, "importance", "LOW"))
        px == Get(x, "percentage_diff", Pct(0, 1))
        py == Get(y, "percentage_diff", Pct(0, 1))
    IN  \/ ix > iy
        \/ ix = iy /\ px.num * py.den >= py.num * px.den

\* mutant: x goes before the elements whose key equals its own
SortedInsert_Unstable(sorted, x) ==
    LET k == Cardinality({i \in DOMAIN sorted : ~RankKeyGe(x, sorted[i])})
    IN  SubSeq(sorted, 1, k) \o <<x>> \o SubSeq(sorted, k + 1, Len(sorted))

\* sorted(..., reverse=True) is stable: x goes behind every element whose key
\* is at least its own
SortedInsert(sorted, x) ==
    LET k == Cardinality({i \in DOMAIN sorted : RankKeyGe(sorted[i], x)})
    IN  SubSeq(sorted, 1, k) \o <<x>> \o SubSeq(sorted, k + 1, Len(sorted))

RECURSIVE SortedFold(_, _)
SortedFold(crossovers, n) ==
    IF n = 0 THEN <<>>
    ELSE SortedInsert(SortedFold(crossovers, n - 1), crossovers[n])

\* crossover['importance'] = ...: the dict gains (or overwrites) the key
WithImportance(crossover) ==
    [k \in DOMAIN crossover \cup {"importance"} |->
        IF k = "importance" THEN classify_signal_importance(crossover)
        ELSE crossover[k]]

rank_signals_by_importance(crossovers) ==
    IF crossovers = <<>> THEN <<>>
    ELSE LET classified == [i \in DOMAIN crossovers |-> WithImportance(crossovers[i])]
         IN  SortedFold(classified, Len(classified))

\* the caller's list once rank_signals_by_importance has returned: the loop
\* assigns crossover['importance'] on the dicts of the list itself
RankedInPlace(crossovers) ==
    [i \in DOMAIN crossovers |-> WithImportance(crossovers[i])]

\* ------------------------------------------------- crossover detection

NaN == -1

None == [kind |-> "none"]

Raise(exception) == [kind |-> "raise", exception |-> exception]

Returned(event) == [kind |-> "event", event |-> event]

Abs(x) == IF x < 0 THEN -x ELSE x

dropna(series) == SelectSeq(series, LAMBDA v : v # NaN)

\* aligned.index[-1]: the position in `series` of its last defined value
LastIndex(series) ==
    LET defined == {i \in DOMAIN series : series[i] # NaN}
    IN  CHOOSE i \in defined : \A j \in defined : j <= i

\* mutant: the thresholds are inclusive
calculate_signal_strength_Inclusive(fast_ma, slow_ma) ==
    IF slow_ma = 0 THEN [strength |-> 0, percentage_diff |-> Pct(0, 1)]
    ELSE LET percentage_diff == Pct(Abs(fast_ma - slow_ma) * 100, Abs(slow_ma))
             strength == IF percentage_diff.num >= 10 * percentage_diff.den THEN "STRONG"
                         ELSE IF percentage_diff.num >= 5 * percentage_diff.den THEN "MEDIUM"
                         ELSE IF percentage_diff.num >= percentage_diff.den THEN "WEAK"
                         ELSE "MINIMAL"
         IN  [strength |-> strength,
              percentage_diff |-> percentage_diff,
              direction |-> IF fast_ma > slow_ma THEN "BULLISH" ELSE "BEARISH"]

\* utils.calculate_signal_strength: with slow_ma = 0 the returned dict has no
\* 'direction' key
calculate_signal_strength(fast_ma, slow_ma) ==
    IF slow_ma = 0 THEN [strength |-> 0, percentage_diff |-> Pct(0, 1)]
    ELSE LET percentage_diff == Pct(Abs(fast_ma - slow_ma) * 100, Abs(slow_ma))
             strength == IF PctGt(percentage_diff, 10) THEN "STRONG"
                         ELSE IF PctGt(percentage_diff, 5) THEN "MEDIUM"
                         ELSE IF PctGt(percentage_diff, 1) THEN "WEAK"
                         ELSE "MINIMAL"
         IN  [strength |-> strength,
              percentage_diff |-> percentage_diff,
              direction |-> IF fast_ma > slow_ma THEN "BULLISH" ELSE "BEARISH"]

\* mutant: the two labels exchanged
CrossoverType_Exchanged(prev_fast, prev_slow, current_fast, current_slow) ==
    IF prev_fast <= prev_slow /\ current_fast > current_slow THEN "DEATH_CROSS"
    ELSE IF prev_fast >= prev_slow /\ current_fast < current_slow THEN "GOLDEN_CROSS"
    ELSE "None"

CrossoverType(prev_fast, prev_slow, current_fast, current_slow) ==
    IF prev_fast <= prev_slow /\ current_fast > current_slow THEN "GOLDEN_CROSS"
    ELSE IF prev_fast >= prev_slow /\ current_fast < current_slow THEN "DEATH_CROSS"
    ELSE "None"

\* SignalDetector.detect_crossover (the CLI detector)
detect_crossover(fast_ma, slow_ma, lookback_periods) ==
    IF Len(fast_ma) < lookback_periods + 1 \/ Len(slow_ma) < lookback_periods + 1
    THEN None
    ELSE
    LET aligned_fast == dropna(fast_ma)
        aligned_slow == dropna(slow_ma)
    IN  IF Len(aligned_fast) < 2 \/ Len(aligned_slow) < 2 THEN None
        ELSE
        LET current_fast == aligned_fast[Len(aligned_fast)]
            current_slow == aligned_slow[Len(aligned_slow)]
            prev_fast == aligned_fast[Len(aligned_fast) - 1]
            prev_slow == aligned_slow[Len(aligned_slow) - 1]
            crossover_type == CrossoverType(prev_fast, prev_slow, current_fast, current_slow)
            signal_strength == calculate_signal_strength(current_fast, current_slow)
        IN  IF crossover_type = "None" THEN None
            ELSE IF "direction" \notin DOMAIN signal_strength THEN Raise("KeyError")
            ELSE Returned([type |-> crossover_type,
                           timestamp |-> LastIndex(fast_ma),
                           fast_ma_value |-> current_fast,
                           slow_ma_value |-> current_slow,
                           strength |-> signal_strength.strength,
                           percentage_diff |-> signal_strength.percentage_diff,
                           direction |-> signal_strength.direction])

\* api/utils/technical.py TechnicalAnalysis._detect_crossover_pair (the
\* serverless detector); the values are Python floats, so the division by a
\* zero current_slow raises
_detect_crossover_pair(fast_ma, slow_ma, symbol, config) ==
    IF Len(fast_ma) < 2 \/ Len(slow_ma) < 2 THEN None
    ELSE
    LET fast_ma_clean == dropna(fast_ma)
        slow_ma_clean == dropna(slow_ma)
    IN  IF Len(fast_ma_clean) < 2 \/ Len(slow_ma_clean) < 2 THEN None
        ELSE
        LET current_fast == fast_ma_clean[Len(fast_ma_clean)]
            current_slow == slow_ma_clean[Len(slow_ma_clean)]
            prev_fast == fast_ma_clean[Len(fast_ma_clean) - 1]
            prev_slow == slow_ma_clean[Len(slow_ma_clean) - 1]
            crossover_type == CrossoverType(prev_fast, prev_slow, current_fast, current_slow)
        IN  IF crossover_type = "None" THEN None
            ELSE IF current_slow = 0 THEN Raise("ZeroDivisionError")
            ELSE Returned([symbol |-> symbol,
                           type |-> crossover_type,
                           timestamp |-> IsoFormat(LastIndex(fast_ma)),
                           ma_type |-> config.type,
                           fast_period |-> config.fast,
                           slow_period |-> config.slow,
                           fast_ma_value |-> current_fast,
                           slow_ma_value |-> current_slow,
                           crossover_name |-> <<config.type, config.fast, "/", config.slow>>,
                           signal_strength |->
                               Pct(Abs(current_fast - current_slow) * 100, current_slow)])


\* ------------------------------------------------------ TechnicalAnalysis

\* the sum of data[first..last], by halves
RECURSIVE Sum(_, _, _)
Sum(data, first, last) ==
    IF first > last THEN 0
    ELSE IF first = last THEN data[first]
    ELSE LET mid == (first + last) \div 2
         IN  Sum(data, first, mid) + Sum(data, mid + 1, last)

AllNaN(data) == [i \in 1..Len(data) |-> NaN]

\* data.rolling(window=period, min_periods=period).mean()
RollingMean(data, period) ==
    [i \in 1..Len(data) |->
        IF i < period THEN NaN
        ELSE (Sum(data, i - period + 1, i) * Scale) \div period]

\* the recurrence of ewm(span=period, adjust=False) carried from the value y
\* at index first - 1 through the indices first..last, by halves:
\* y[i] = (1 - a) * y[i-1] + a * x[i] with a = 2 / (period + 1)
RECURSIVE EwmFold(_, _, _, _, _)
EwmFold(data, period, y, first, last) ==
    IF first > last THEN y
    ELSE IF first = last
    THEN (2 * data[first] * Scale + (period - 1) * y) \div (period + 1)
    ELSE LET mid == (first + last) \div 2
             y_mid == EwmFold(data, period, y, first, mid)
         IN  IF y_mid = NaN THEN NaN
             ELSE EwmFold(data, period, y_mid, mid + 1, last)

\* data.ewm(span=period, adjust=False).mean(): y[1] = x[1]
EwmMean(data, period) ==
    [i \in 1..Len(data) |-> EwmFold(data, period, data[1] * Scale, 2, i)]

\* mutant: rolling(window=period, min_periods=1), without the length guard
calculate_sma_MinPeriodsOne(data, period) ==
    [i \in 1..Len(data) |->
        IF i < period THEN (Sum(data, 1, i) * Scale) \div i
        ELSE (Sum(data, i - period + 1, i) * Scale) \div period]

\* src/technical_analysis.py TechnicalAnalysis.calculate_sma
calculate_sma(data, period) ==
    IF Len(data) < period THEN AllNaN(data) ELSE RollingMean(data, period)

\* src/technical_analysis.py TechnicalAnalysis.calculate_ema
calculate_ema(data, period) ==
    IF Len(data) < period THEN AllNaN(data) ELSE EwmMean(data, period)

\* api/utils/technical.py TechnicalAnalysis.calculate_sma
api_calculate_sma(prices, period) ==
    IF Len(prices) < period THEN AllNaN(prices) ELSE RollingMean(prices, period)

\* api/utils/technical.py TechnicalAnalysis.calculate_ema
api_calculate_ema(prices, period) ==
    IF Len(prices) < period THEN AllNaN(prices) ELSE EwmMean(prices, period)

\* a DataFrame: the close column and the moving-average columns, keyed by
\* <<ma_type, period>> for the column name f'{ma_type}_{period}'
DataFrame(close) == [close |-> close, columns |-> <<>>]

calculate_all_moving_averages(df) ==
    IF df.close = <<>> THEN df
    ELSE [close |-> df.close,
          columns |-> [c \in {"SMA", "EMA"} \X Range(MA_PERIODS) |->
                          IF c[1] = "SMA" THEN calculate_sma(df.close, c[2])
                          ELSE calculate_ema(df.close, c[2])]]

\* the events of a list result, or the exception that ended the call
Listed(events) == [kind |-> "list", events |-> events]

\* SignalDetector.analyze_symbol_crossovers: the loop over the first k
\* configured crossover types; an exception of detect_crossover propagates
RECURSIVE AnalyzeLoop(_, _, _)
AnalyzeLoop(symbol, df, k) ==
    IF k = 0 THEN Listed(<<>>)
    ELSE
    LET crossovers == AnalyzeLoop(symbol, df, k - 1)
        crossover_config == CROSSOVER_TYPES[k]
        fast_period == crossover_config.fast
        slow_period == crossover_config.slow
        ma_type == crossover_config.type
        fast_col == <<ma_type, fast_period>>
        slow_col == <<ma_type, slow_period>>
    IN  IF crossovers.kind = "raise" THEN crossovers
        ELSE IF fast_col \notin DOMAIN df.columns \/ slow_col \notin DOMAIN df.columns
        THEN crossovers
        ELSE
        LET crossover == detect_crossover(df.columns[fast_col], df.columns[slow_col], Lookback)
        IN  IF crossover.kind = "raise" THEN crossover
            ELSE IF crossover = None THEN crossovers
            ELSE Listed(Append(crossovers.events,
                    [type |-> crossover.event.type,
                     timestamp |-> crossover.event.timestamp,
                     fast_ma_value |-> crossover.event.fast_ma_value,
                     slow_ma_value |-> crossover.event.slow_ma_value,
                     strength |-> crossover.event.strength,
                     percentage_diff |-> crossover.event.percentage_diff,
                     direction |-> crossover.event.direction,
                     symbol |-> symbol,
                     fast_period |-> fast_period,
                     slow_period |-> slow_period,
                     ma_type |-> ma_type,
                     crossover_name |-> <<ma_type, fast_period, slow_period>>,
                     current_price |-> df.close[Len(df.close)]]))

analyze_symbol_crossovers(symbol, df) ==
    IF df.close = <<>> THEN Listed(<<>>)
    ELSE AnalyzeLoop(symbol, df, Len(CROSSOVER_TYPES))

\* api/utils/technical.py TechnicalAnalysis.detect_crossovers: the loop over
\* the first k crossover pairs
RECURSIVE DetectPairsLoop(_, _, _)
DetectPairsLoop(df, symbol, k) ==
    IF k = 0 THEN Listed(<<>>)
    ELSE
    LET crossovers == DetectPairsLoop(df, symbol, k - 1)
        pair == CROSSOVER_TYPES[k]
        fast_ma == IF pair.type = "SMA" THEN api_calculate_sma(df.close, pair.fast)
                   ELSE api_calculate_ema(df.close, pair.fast)
        slow_ma == IF pair.type = "SMA" THEN api_calculate_sma(df.close, pair.slow)
                   ELSE api_calculate_ema(df.close, pair.slow)
    IN  IF crossovers.kind = "raise" THEN crossovers
        ELSE
        LET crossover == _detect_crossover_pair(fast_ma, slow_ma, symbol, pair)
        IN  IF crossover.kind = "raise" THEN crossover
            ELSE IF crossover = None THEN crossovers
            ELSE Listed(Append(crossovers.events, crossover.event))

detect_crossovers(df, symbol) ==
    IF df.close = <<>> \/ Len(df.close) < MinBars THEN Listed(<<>>)
    ELSE DetectPairsLoop(df, symbol, Len(CROSSOVER_TYPES))

\* --------------------------------------------------------- AlertManager

Md5Json(key_data) == key_data

\* mutant: the timestamp enters the key untruncated
generate_alert_id_FullTimestamp(alert_data, t) ==
    Md5Json([symbol |-> Get(alert_data, "symbol", ""),
             crossover_name |-> Get(alert_data, "crossover_name", ""),
             type |-> Get(alert_data, "type", ""),
             timestamp_hour |-> Get(alert_data, "timestamp", t)])

generate_alert_id(alert_data, t) ==
    Md5Json([symbol |-> Get(alert_data, "symbol", ""),
             crossover_name |-> Get(alert_data, "crossover_name", ""),
             type |-> Get(alert_data, "type", ""),
             timestamp_hour |-> StrftimeHour(Get(alert_data, "timestamp", t))])

create_alert(crossover_data, importance, t) ==
    [id |-> generate_alert_id(crossover_data, t),
     timestamp |-> IsoFormat(t),
     symbol |-> Get(crossover_data, "symbol", "UNKNOWN"),
     alert_type |-> "CROSSOVER",
     signal_type |-> Get(crossover_data, "type", "UNKNOWN"),
     importance |-> importance,
     crossover_name |-> Get(crossover_data, "crossover_name", ""),
     ma_type |-> Get(crossover_data, "ma_type", ""),
     fast_period |-> Get(crossover_data, "fast_period", 0),
     slow_period |-> Get(crossover_data, "slow_period", 0),
     current_price |-> Get(crossover_data, "current_price", 0),
     fast_ma_value |-> Get(crossover_data, "fast_ma_value", 0),
     slow_ma_value |-> Get(crossover_data, "slow_ma_value", 0),
     percentage_diff |-> Get(crossover_data, "percentage_diff", Pct(0, 1)),
     strength |-> Get(crossover_data, "strength", "UNKNOWN"),
     direction |-> Get(crossover_data, "direction", "NEUTRAL"),
     crossover_timestamp |-> IsoFormat(Get(crossover_data, "timestamp", t))]

\* mutant: a new alert's id is not added to sent_alerts
ProcessStep_NoMark(acc, i, crossover, importance_classifier_func, t) ==
    LET importance == Classify(importance_classifier_func, crossover)
        alert == create_alert(crossover, importance, t)
        scored == acc.scored \cup {i}
    IN  IF alert.id \notin acc.sent_alerts
        THEN [acc EXCEPT !.alerts = Append(@, alert), !.scored = scored]
        ELSE [acc EXCEPT !.scored = scored]

\* One pass of the loop of process_crossovers_to_alerts over `crossover`.
\* acc.scored lists the input positions the classifier was invoked on.
ProcessStep(acc, i, crossover, importance_classifier_func, t) ==
    LET importance == Classify(importance_classifier_func, crossover)
        alert == create_alert(crossover, importance, t)
        alert_id == alert.id
        scored == acc.scored \cup {i}
    IN  IF alert_id \notin acc.sent_alerts
        THEN [alerts |-> Append(acc.alerts, alert),
              sent_alerts |-> acc.sent_alerts \cup {alert_id},
              scored |-> scored]
        ELSE [acc EXCEPT !.scored = scored]

RECURSIVE ProcessLoop(_, _, _, _, _)
ProcessLoop(crossovers, n, importance_classifier_func, sent, t) ==
    IF n = 0 THEN [alerts |-> <<>>, sent_alerts |-> sent, scored |-> {}]
    ELSE ProcessStep(ProcessLoop(crossovers, n - 1, importance_classifier_func, sent, t),
                     n, crossovers[n], importance_classifier_func, t)

process_crossovers_to_alerts(crossovers, importance_classifier_func, sent, t) ==
    ProcessLoop(crossovers, Len(crossovers), importance_classifier_func, sent, t)

\* The history file: absent, a JSON list of alerts, or not parseable.
NoFile == [kind |-> "absent"]

CorruptFile == [kind |-> "corrupt"]

\* json.dump(alert_history, default=str) then json.load: an alert holds only
\* strings and numbers, which JSON gives back as they were.
JsonFile(history) == [kind |-> "json", data |-> history]

WriteOutcomes == {"ok", "fail_open", "fail_dump"}

AlertTime(alert) == FromIsoFormat(alert.timestamp)

\* mutant: no try/except around the write
save_alert_history_NoCatch(history, file, w) ==
    IF w = "ok" THEN [file |-> JsonFile(history), raised |-> FALSE]
    ELSE IF w = "fail_open" THEN [file |-> file, raised |-> TRUE]
    ELSE [file |-> CorruptFile, raised |-> TRUE]

\* save_alert_history under write outcome w.  "fail_open": makedirs or open
\* raises and the file is untouched.  "fail_dump": open(..., 'w') has truncated
\* the file and json.dump or the closing flush raises, leaving a partial text.
\* The try/except logs the error: nothing is raised to the caller.
save_alert_history(history, file, w) ==
    IF w = "ok" THEN [file |-> JsonFile(history), raised |-> FALSE]
    ELSE IF w = "fail_open" THEN [file |-> file, raised |-> FALSE]
    ELSE [file |-> CorruptFile, raised |-> FALSE]

\* mutant: the history is saved before it is extended
add_alerts_to_history_SaveFirst(history, file, alerts, w) ==
    LET saved == save_alert_history(history, file, w)
    IN  [alert_history |-> history \o alerts, file |-> saved.file,
         raised |-> saved.raised]

add_alerts_to_history(history, file, alerts, w) ==
    LET extended == history \o alerts
        saved == save_alert_history(extended, file, w)
    IN  [alert_history |-> extended, file |-> saved.file, raised |-> saved.raised]

\* mutant: an alert exactly hours_back old is no longer recent
get_recent_alerts_Strict(history, hours_back, t) ==
    LET cutoff_time == t - Hours(hours_back)
    IN  SelectSeq(history, LAMBDA alert : AlertTime(alert) > cutoff_time)

get_recent_alerts(history, hours_back, t) ==
    LET cutoff_time == t - Hours(hours_back)
    IN  SelectSeq(history, LAMBDA alert : AlertTime(alert) >= cutoff_time)

\* mutant: sent_alerts is not rebuilt from the loaded history
load_alert_history_NoRebuild(file, t) ==
    IF file.kind = "json" THEN [alert_history |-> file.data, sent_alerts |-> {}]
    ELSE [alert_history |-> <<>>, sent_alerts |-> {}]

\* mutant: sent_alerts is rebuilt from the whole history
load_alert_history_WholeHistory(file, t) ==
    IF file.kind = "json"
    THEN [alert_history |-> file.data,
          sent_alerts |-> {alert.id : alert \in Range(file.data)}]
    ELSE [alert_history |-> <<>>, sent_alerts |-> {}]

\* load_alert_history in __init__, where alert_history = [] and
\* sent_alerts = set() have just been assigned.
load_alert_history(file, t) ==
    IF file.kind = "absent" THEN [alert_history |-> <<>>, sent_alerts |-> {}]
    ELSE IF file.kind = "json"
    THEN [alert_history |-> file.data,
          sent_alerts |-> {alert.id : alert \in Range(get_recent_alerts(file.data, HoursBack, t))}]
    ELSE [alert_history |-> <<>>, sent_alerts |-> {}]

cleanup_old_alerts(history, file, days_to_keep, t, w) ==
    LET cutoff_date == t - Hours(24 * days_to_keep)
        kept == SelectSeq(history, LAMBDA alert : AlertTime(alert) >= cutoff_date)
        removed_count == Len(history) - Len(kept)
    IN  IF removed_count > 0
        THEN [alert_history |-> kept, file |-> save_alert_history(kept, file, w).file]
        ELSE [alert_history |-> kept, file |-> file]

\* --------------------------------------------------- inputs of the model

\* A crossover event as analyze_symbol_crossovers builds it (no 'importance'
\* key yet: rank_signals_by_importance adds it).
Event(symbol, ma_type, fast, slow, type, ts, fastv, slowv, pct, strength) ==
    [type |-> type, timestamp |-> ts, fast_ma_value |-> fastv,
     slow_ma_value |-> slowv, strength |-> strength, percentage_diff |-> pct,
     direction |-> IF fastv > slowv THEN "BULLISH" ELSE "BEARISH",
     symbol |-> symbol, fast_period |-> fast, slow_period |-> slow,
     ma_type |-> ma_type,
     crossover_name |-> <<ma_type, fast, slow>>,
     current_price |-> fastv]

\* EvA and EvB agree on symbol, crossover_name, type and clock hour and differ
\* in everything else; EvC is EvA one hour later.
EvA == Event("BTCUSDT", "SMA", 20, 50, "GOLDEN_CROSS", 0, 104, 100, Pct(4, 1), "WEAK")

EvB == Event("BTCUSDT", "SMA", 20, 50, "GOLDEN_CROSS", 1, 112, 100, Pct(12, 1), "STRONG")

EvC == Event("BTCUSDT", "SMA", 20, 50, "GOLDEN_CROSS", TicksPerHour, 104, 100, Pct(4, 1), "WEAK")

RunEvents == {EvA, EvB, EvC}

RunInputs == SeqsUpTo(RunEvents, MaxEvents)

\* The clock values explored: the first tick of each day and the tick after
\* it, for MaxDays days after the first.
MaxNow == MaxDays * Hours(HoursBack) + 1

TickSteps == {1, Hours(HoursBack)}

NoResults ==
    [ran |-> FALSE, input |-> <<>>, alerts |-> <<>>, scored |-> {},
     sent0 |-> {}, history0 |-> <<>>, write |-> "none", raised |-> FALSE,
     success |-> FALSE, at |-> 0]

DetIdle == [pc |-> "idle"]

CallIdle == [pc |-> "idle"]

\* moving-average values around the strength thresholds of 1, 5 and 10 per cent
Prices == {0, 10, 11, 12, 100, 101, 102, 105, 110}

\* events over every combination of the attributes the classifiers read, and
\* of two they do not
ClassifyEvents ==
    {Event(symbol, ma_type, 20, slow, type, 0, 100, 100, pct, strength) :
        symbol \in {"BTCUSDT", "ETHUSDT"}, ma_type \in {"SMA", "EMA"},
        slow \in {49, 50, 199, 200}, type \in {"GOLDEN_CROSS", "DEATH_CROSS"},
        pct \in {Pct(2, 1), Pct(5, 2), Pct(5, 1), Pct(11, 2)},
        strength \in {"MINIMAL", "WEAK", "MEDIUM", "STRONG"}}

\* events to rank: two of tier LOW that tie (they differ in symbol), two of
\* tier MEDIUM of different percentage_diff, one of tier HIGH
RankEvents ==
    {Event("BTCUSDT", "SMA", 20, 50, "GOLDEN_CROSS", 0, 101, 100, Pct(1, 1), "MINIMAL"),
     Event("ETHUSDT", "SMA", 20, 50, "GOLDEN_CROSS", 0, 101, 100, Pct(1, 1), "MINIMAL"),
     Event("BTCUSDT", "SMA", 20, 50, "DEATH_CROSS", 0, 99, 100, Pct(1, 1), "MEDIUM"),
     Event("ETHUSDT", "SMA", 20, 50, "DEATH_CROSS", 0, 97, 100, Pct(3, 1), "MEDIUM"),
     Event("BTCUSDT", "EMA", 50, 200, "GOLDEN_CROSS", 0, 101, 100, Pct(1, 1), "STRONG")}

\* the bars of a symbol: `count` closing prices, all `base` but the last two
Bars(count, base, before_last, last) ==
    [i \in 1..count |-> IF i = count THEN last
                        ELSE IF i = count - 1 THEN before_last ELSE base]

BarCounts == {0, 3, 199, 200, 201}

BarPrices == {50, 100, 150, 200}

\* a series of Lookback + 1 values ending with prev, current
PriceSeries(prev, current) == <<prev, prev, prev, current>>

\* a moving-average series: values 0..MaxValue, or NaN where undefined
Series == SeqsUpTo({NaN} \cup 0..MaxValue, MaxLen)

PairConfig == [fast |-> 20, slow |-> 50, type |-> "SMA"]

\* ---------------------------------------------------------------- actions

\* CryptoAnalysisApp.__init__: AlertManager() loads the history file.
Start ==
    /\ pc = "down"
    /\ LET loaded == load_alert_history(alert_file, now)
       IN  /\ alert_history' = loaded.alert_history
           /\ sent_alerts' = loaded.sent_alerts
    /\ pc' = "ready"
    /\ UNCHANGED <<now, alert_file, results, tainted, det, call>>

\* run_analysis -> _process_analysis_data, steps 6 to 9, on the crossovers
\* that steps 1 to 5 detected; w is the outcome of the history write.
RunAnalysis(crossovers, w) ==
    /\ pc = "ready"
    /\ LET ranked_crossovers == rank_signals_by_importance(crossovers)
           p == process_crossovers_to_alerts(ranked_crossovers,
                    "classify_signal_importance", sent_alerts, now)
           added == IF p.alerts # <<>>
                    THEN add_alerts_to_history(alert_history, alert_file, p.alerts, w)
                    ELSE [alert_history |-> alert_history, file |-> alert_file,
                          raised |-> FALSE]
       IN  /\ Len(added.alert_history) <= MaxHistory
           /\ sent_alerts' = p.sent_alerts
           /\ alert_history' = added.alert_history
           /\ alert_file' = added.file
           /\ results' = [ran |-> TRUE, input |-> ranked_crossovers,
                          alerts |-> p.alerts, scored |-> p.scored,
                          sent0 |-> sent_alerts, history0 |-> alert_history,
                          write |-> IF p.alerts # <<>> THEN w ELSE "none",
                          raised |-> added.raised,
                          success |-> ~added.raised, at |-> now]
    /\ pc' = "returned"
    /\ UNCHANGED <<now, tainted, det, call>>

\* run_analysis when steps 1 to 3 raise (no connection, no symbols, no data):
\* the except clause returns results with success False.
RunAnalysisFetchFailed ==
    /\ pc = "ready"
    /\ results' = [NoResults EXCEPT !.ran = TRUE, !.sent0 = sent_alerts,
                                    !.history0 = alert_history, !.at = now]
    /\ pc' = "returned"
    /\ UNCHANGED <<now, alert_file, alert_history, sent_alerts, tainted, det, call>>

\* The process ends; its memory is gone.
Exit ==
    /\ pc \in {"ready", "returned"}
    /\ pc' = "down"
    /\ alert_history' = <<>>
    /\ sent_alerts' = {}
    /\ results' = NoResults
    /\ UNCHANGED <<now, alert_file, tainted, det, call>>

Tick(d) ==
    /\ pc \in {"down", "ready"}
    /\ now + d <= MaxNow
    /\ (now + d) % Hours(HoursBack) <= 1
    /\ now' = now + d
    /\ UNCHANGED <<alert_file, alert_history, sent_alerts, pc, results, tainted, det, call>>

\* add_alerts_to_history called by another caller than _process_analysis_data,
\* with a list of its choosing, as the one operation of its process.
DirectAlerts == {create_alert(e, _classify_default_importance(e), now) : e \in RunEvents}

AddAlertsToHistory(alerts, w) ==
    /\ pc = "ready"
    /\ LET added == add_alerts_to_history(alert_history, alert_file, alerts, w)
       IN  /\ Len(added.alert_history) <= MaxHistory
           /\ alert_history' = added.alert_history
           /\ alert_file' = added.file
    /\ tainted' = TRUE
    /\ pc' = "returned"
    /\ UNCHANGED <<now, sent_alerts, results, det, call>>

CleanupOldAlerts(days_to_keep, w) ==
    /\ pc = "ready"
    /\ LET cleaned == cleanup_old_alerts(alert_history, alert_file, days_to_keep, now, w)
       IN  /\ alert_history' = cleaned.alert_history
           /\ alert_file' = cleaned.file
    /\ UNCHANGED <<now, sent_alerts, pc, results, tainted, det, call>>

\* Both detectors applied to (fast_ma, slow_ma) and to the swapped pair.
Detect ==
    /\ det.pc = "input"
    /\ det' = [pc |-> "done", fast_ma |-> det.fast_ma, slow_ma |-> det.slow_ma,
               cli |-> detect_crossover(det.fast_ma, det.slow_ma, Lookback),
               cli_swapped |-> detect_crossover(det.slow_ma, det.fast_ma, Lookback),
               api |-> _detect_crossover_pair(det.fast_ma, det.slow_ma, "BTCUSDT", PairConfig),
               api_swapped |-> _detect_crossover_pair(det.slow_ma, det.fast_ma, "BTCUSDT", PairConfig)]
    /\ UNCHANGED <<now, alert_file, alert_history, sent_alerts, pc, results, tainted, call>>

\* utils.calculate_signal_strength applied to the current values
CalculateSignalStrength ==
    /\ call.pc = "input"
    /\ call.op = "calculate_signal_strength"
    /\ call' = [call EXCEPT !.pc = "done",
                 !.result = calculate_signal_strength(call.fast_ma, call.slow_ma)]
    /\ UNCHANGED <<now, alert_file, alert_history, sent_alerts, pc, results, tainted, det>>

\* One symbol through calculate_all_moving_averages and
\* analyze_symbol_crossovers (the CLI) and through detect_crossovers (the API).
AnalyzeSymbol ==
    /\ call.pc = "input"
    /\ call.op = "analyze_symbol"
    /\ call' = [call EXCEPT !.pc = "done",
                 !.cli = analyze_symbol_crossovers(call.symbol,
                            calculate_all_moving_averages(call.df)),
                 !.api = detect_crossovers(call.df, call.symbol)]
    /\ UNCHANGED <<now, alert_file, alert_history, sent_alerts, pc, results, tainted, det>>

\* Both importance classifiers applied to one event.
ClassifyEvent ==
    /\ call.pc = "input"
    /\ call.op = "classify"
    /\ call' = [call EXCEPT !.pc = "done",
                 !.importance_score = ImportanceScore(call.crossover),
                 !.importance = classify_signal_importance(call.crossover),
                 !.default_score = DefaultScore(call.crossover),
                 !.default_importance = _classify_default_importance(call.crossover)]
    /\ UNCHANGED <<now, alert_file, alert_history, sent_alerts, pc, results, tainted, det>>

\* rank_signals_by_importance applied to a list of events.
RankSignals ==
    /\ call.pc = "input"
    /\ call.op = "rank"
    /\ call' = [call EXCEPT !.pc = "done",
                 !.crossovers_after = RankedInPlace(call.crossovers),
                 !.result = rank_signals_by_importance(call.crossovers)]
    /\ UNCHANGED <<now, alert_file, alert_history, sent_alerts, pc, results, tainted, det>>

\* calculate_sma and calculate_ema, of the CLI and of the API, applied to one
\* series of closing prices.
MovingAverages ==
    /\ call.pc = "input"
    /\ call.op = "moving_averages"
    /\ call' = [call EXCEPT !.pc = "done",
                 !.sma = calculate_sma(call.data, call.period),
                 !.ema = calculate_ema(call.data, call.period),
                 !.api_sma = api_calculate_sma(call.data, call.period),
                 !.api_ema = api_calculate_ema(call.data, call.period)]
    /\ UNCHANGED <<now, alert_file, alert_history, sent_alerts, pc, results, tainted, det>>

\* ---------------------------------------------------------- specifications

Init ==
    /\ now = 0
    /\ alert_file = NoFile
    /\ alert_history = <<>>
    /\ sent_alerts = {}
    /\ pc = "down"
    /\ results = NoResults
    /\ tainted = FALSE
    /\ det = DetIdle
    /\ call = CallIdle

Next ==
    \/ Start
    \/ \E crossovers \in RunInputs, w \in WriteOutcomes : RunAnalysis(crossovers, w)
    \/ RunAnalysisFetchFailed
    \/ Exit
    \/ \E d \in TickSteps : Tick(d)

Spec == Init /\ [][Next]_vars

NextApi ==
    \/ Next
    \/ \E alerts \in SeqsUpTo(DirectAlerts, MaxEvents), w \in WriteOutcomes :
          alerts # <<>> /\ AddAlertsToHistory(alerts, w)
    \/ \E days_to_keep \in {0, 1, 30}, w \in WriteOutcomes :
          CleanupOldAlerts(days_to_keep, w)

SpecApi == Init /\ [][NextApi]_vars

\* The detectors as pure functions: every pair of series within the bounds.
InitDetect ==
    /\ now = 0
    /\ alert_file = NoFile
    /\ alert_history = <<>>
    /\ sent_alerts = {}
    /\ pc = "down"
    /\ results = NoResults
    /\ tainted = FALSE
    /\ det \in {[pc |-> "input", fast_ma |-> f, slow_ma |-> s] : f, s \in Series}
    /\ call = CallIdle

NextDetect == Detect

SpecDetect == InitDetect /\ [][NextDetect]_vars

\* The detectors and the strength on price series: the last two values of
\* each series drawn from Prices.
InitCross ==
    /\ now = 0
    /\ alert_file = NoFile
    /\ alert_history = <<>>
    /\ sent_alerts = {}
    /\ pc = "down"
    /\ results = NoResults
    /\ tainted = FALSE
    /\ \E prev_fast, prev_slow, current_fast, current_slow \in Prices :
          /\ det = [pc |-> "input", fast_ma |-> PriceSeries(prev_fast, current_fast),
                    slow_ma |-> PriceSeries(prev_slow, current_slow)]
          /\ call = [pc |-> "input", op |-> "calculate_signal_strength",
                     fast_ma |-> current_fast, slow_ma |-> current_slow,
                     result |-> None]

NextCross == Detect \/ CalculateSignalStrength

SpecCross == InitCross /\ [][NextCross]_vars

\* One symbol's bars through the moving averages and the detectors.
InitSymbol ==
    /\ now = 0
    /\ alert_file = NoFile
    /\ alert_history = <<>>
    /\ sent_alerts = {}
    /\ pc = "down"
    /\ results = NoResults
    /\ tainted = FALSE
    /\ det = DetIdle
    /\ \E count \in BarCounts, before_last, last \in BarPrices :
          call = [pc |-> "input", op |-> "analyze_symbol", symbol |-> "BTCUSDT",
                  df |-> DataFrame(Bars(count, 100, before_last, last)),
                  cli |-> None, api |-> None]

NextSymbol == AnalyzeSymbol

SpecSymbol == InitSymbol /\ [][NextSymbol]_vars

\* The importance classifiers as pure functions of an event.
InitClassify ==
    /\ now = 0
    /\ alert_file = NoFile
    /\ alert_history = <<>>
    /\ sent_alerts = {}
    /\ pc = "down"
    /\ results = NoResults
    /\ tainted = FALSE
    /\ det = DetIdle
    /\ \E crossover \in ClassifyEvents :
          call = [pc |-> "input", op |-> "classify", crossover |-> crossover,
                  importance_score |-> 0, importance |-> "",
                  default_score |-> 0, default_importance |-> ""]

NextClassify == ClassifyEvent

SpecClassify == InitClassify /\ [][NextClassify]_vars

\* rank_signals_by_importance on every list of at most MaxRanked events.
InitRank ==
    /\ now = 0
    /\ alert_file = NoFile
    /\ alert_history = <<>>
    /\ sent_alerts = {}
    /\ pc = "down"
    /\ results = NoResults
    /\ tainted = FALSE
    /\ det = DetIdle
    /\ \E crossovers \in SeqsUpTo(RankEvents, MaxRanked) :
          call = [pc |-> "input", op |-> "rank", crossovers |-> crossovers,
                  crossovers_after |-> <<>>, result |-> <<>>]

NextRank == RankSignals

SpecRank == InitRank /\ [][NextRank]_vars

\* The moving averages of every series of at most MaxLen prices, for the
\* periods up to MaxPeriod.
InitMA ==
    /\ now = 0
    /\ alert_file = NoFile
    /\ alert_history = <<>>
    /\ sent_alerts = {}
    /\ pc = "down"
    /\ results = NoResults
    /\ tainted = FALSE
    /\ det = DetIdle
    /\ \E data \in SeqsUpTo(1..MaxValue, MaxLen), period \in 1..MaxPeriod :
          call = [pc |-> "input", op |-> "moving_averages", data |-> data,
                  period |-> period, sma |-> <<>>, ema |-> <<>>,
                  api_sma |-> <<>>, api_ema |-> <<>>]

NextMA == MovingAverages

SpecMA == InitMA /\ [][NextMA]_vars

\* ------------------------------------------------------- market summary
\* _calculate_market_strength computes its score in binary floating point
\* (IEEE 754 double, round to nearest, ties to even).  A double d with
\* 0 <= d < 8 that is a multiple of 2^-60 is carried as three limbs
\* <<a, b, c>> of 21 bits each, d = (a * 2^42 + b * 2^21 + c) * 2^-60; every
\* double from 2^-8 up to 8 is such a multiple.

Limb == 2^21

\* the limbs brought back under 2^21, the carries moved up
DblNorm(a, b, c) ==
    LET b0 == b + c \div Limb
    IN  <<a + b0 \div Limb, b0 % Limb, c % Limb>>

\* number of significant bits of a limb
DblBits(x) == Cardinality({n \in 0..20 : 2^n <= x})

\* number of significant bits of the 63-bit integer of the limbs
DblLen(X) ==
    IF X[1] > 0 THEN 42 + DblBits(X[1])
    ELSE IF X[2] > 0 THEN 21 + DblBits(X[2]) ELSE DblBits(X[3])

\* the exact value X (plus a non-zero rest below its last bit when sticky)
\* rounded to 53 significant bits, to nearest, ties to even
DblRound(X, sticky) ==
    LET d == DblLen(X) - 53
    IN  IF d <= 0 THEN X
        ELSE LET unit == 2^d
                 low == X[3] % unit
                 half == unit \div 2
                 odd == (X[3] \div unit) % 2 = 1
                 up == \/ low > half
                       \/ low = half /\ (sticky \/ odd)
             IN  DblNorm(X[1], X[2], X[3] - low + (IF up THEN unit ELSE 0))

\* int * float: the int converts exactly, the product is rounded
DblTimes(k, X) == DblRound(DblNorm(k * X[1], k * X[2], k * X[3]), FALSE)

\* float + float
DblAdd(X, Y) == DblRound(DblNorm(X[1] + Y[1], X[2] + Y[2], X[3] + Y[3]), FALSE)

\* float / int: long division over the limbs, the rest kept as sticky bit
DblDiv(X, k) ==
    LET nb == (X[1] % k) * Limb + X[2]
        nc == (nb % k) * Limb + X[3]
    IN  DblRound(<<X[1] \div k, nb \div k, nc \div k>>, nc % k # 0)

\* float > float
DblGt(X, Y) ==
    \/ X[1] > Y[1]
    \/ X[1] = Y[1] /\ X[2] > Y[2]
    \/ X[1] = Y[1] /\ X[2] = Y[2] /\ X[3] > Y[3]

\* the doubles of the literals 0.3, 0.4, 0.7, 0.55 and 0.45
Dbl03 == <<78643, 419430, 838848>>
Dbl04 == <<104857, 1258291, 419456>>
Dbl07 == <<183500, 1677721, 1258240>>
Dbl055 == <<144179, 419430, 838912>>
Dbl045 == <<117964, 1677721, 1258304>>

\* (above_ma20 * 0.3 + above_ma50 * 0.4 + above_ma200 * 0.3) / total
MarketScore(above_ma20, above_ma50, above_ma200, total) ==
    DblDiv(DblAdd(DblAdd(DblTimes(above_ma20, Dbl03),
                         DblTimes(above_ma50, Dbl04)),
                  DblTimes(above_ma200, Dbl03)),
           total)

_calculate_market_strength(above_ma20, above_ma50, above_ma200, total) ==
    IF total = 0 THEN "neutral"
    ELSE LET score == MarketScore(above_ma20, above_ma50, above_ma200, total)
         IN  IF DblGt(score, Dbl07) THEN "very_bullish"
             ELSE IF DblGt(score, Dbl055) THEN "bullish"
             ELSE IF DblGt(score, Dbl045) THEN "neutral"
             ELSE IF DblGt(score, Dbl03) THEN "bearish"
             ELSE "very_bearish"

\* number of symbols whose price is above the SMA of the key
AboveCount(symbols_data, key) ==
    Cardinality({i \in DOMAIN symbols_data :
                    symbols_data[i].moving_averages[key].price_vs_sma = "above"})

\* number of crossovers of the type over all symbols
RECURSIVE CrossCount(_, _)
CrossCount(symbols_data, type) ==
    IF symbols_data = <<>> THEN 0
    ELSE Cardinality({j \in DOMAIN Head(symbols_data).crossovers :
                         Head(symbols_data).crossovers[j].type = type})
         + CrossCount(Tail(symbols_data), type)

\* the summary without its timestamp; a percentage is the exact quotient
get_market_summary(symbols_data) ==
    IF symbols_data = <<>>
    THEN [total_symbols |-> 0, error |-> "No data available"]
    ELSE LET golden_crosses == CrossCount(symbols_data, "GOLDEN_CROSS")
             death_crosses == CrossCount(symbols_data, "DEATH_CROSS")
             above_ma20 == AboveCount(symbols_data, "ma_20")
             above_ma50 == AboveCount(symbols_data, "ma_50")
             above_ma200 == AboveCount(symbols_data, "ma_200")
             total_symbols == Len(symbols_data)
         IN  [total_symbols |-> total_symbols,
              crossover_summary |->
                  [golden_crosses |-> golden_crosses,
                   death_crosses |-> death_crosses,
                   total_crossovers |-> golden_crosses + death_crosses],
              market_sentiment |->
                  [above_ma20_pct |-> Pct(above_ma20 * 100, total_symbols),
                   above_ma50_pct |-> Pct(above_ma50 * 100, total_symbols),
                   above_ma200_pct |-> Pct(above_ma200 * 100, total_symbols)],
              market_strength |->
                  _calculate_market_strength(above_ma20, above_ma50,
                                             above_ma200, total_symbols)]

\* the entries of symbols_data: every combination of the three positions
\* without crossovers, and two entries that carry crossovers
PriceVsSma == {"above", "below"}

SymbolEntry(crossovers, p20, p50, p200) ==
    [crossovers |-> crossovers,
     moving_averages |-> [ma_20 |-> [price_vs_sma |-> p20],
                          ma_50 |-> [price_vs_sma |-> p50],
                          ma_200 |-> [price_vs_sma |-> p200]]]

SymbolEntries ==
    {SymbolEntry(<<>>, p20, p50, p200) :
        p20 \in PriceVsSma, p50 \in PriceVsSma, p200 \in PriceVsSma}
    \cup {SymbolEntry(<<[type |-> "GOLDEN_CROSS"]>>, "above", "above", "below"),
          SymbolEntry(<<[type |-> "DEATH_CROSS"], [type |-> "GOLDEN_CROSS"]>>,
                      "below", "below", "above")}

\* get_market_summary applied to one list of symbol entries
MarketSummary ==
    /\ call.pc = "input"
    /\ call.op = "market_summary"
    /\ call' = [call EXCEPT !.pc = "done",
                 !.summary = get_market_summary(call.symbols_data)]
    /\ UNCHANGED <<now, alert_file, alert_history, sent_alerts, pc, results, tainted, det>>

InitMarket ==
    /\ now = 0
    /\ alert_file = NoFile
    /\ alert_history = <<>>
    /\ sent_alerts = {}
    /\ pc = "down"
    /\ results = NoResults
    /\ tainted = FALSE
    /\ det = DetIdle
    /\ \E symbols_data \in SeqsUpTo(SymbolEntries, MaxSymbols) :
          call = [pc |-> "input", op |-> "market_summary",
                  symbols_data |-> symbols_data, summary |-> [total_symbols |-> 0]]

NextMarket == MarketSummary

SpecMarket == InitMarket /\ [][NextMarket]_vars

\* ---------------------------------------------------- request handlers
\* api/market-summary.py and api/crossovers.py, handler.do_GET.  The time
\* since start_time is counted in seconds.

Min(a, b) == IF a < b THEN a ELSE b

Max(a, b) == IF a > b THEN a ELSE b

\* n / d rounded to the nearest integer (d > 0; halves up)
RoundDiv(n, d) == (2 * n + d) \div (2 * d)

\* the first n elements of a list: s[:n]
Take(s, n) == SubSeq(s, 1, Min(Max(n, 0), Len(s)))

\* the last n elements of a list: s[-n:]
TakeLast(s, n) == SubSeq(s, Max(Len(s) - n, 0) + 1, Len(s))

\* s[::-1]
Reverse(s) == [i \in 1..Len(s) |-> s[Len(s) + 1 - i]]

\* BinanceClient._get_mock_top_symbols: the first names of mock_symbols
MockSymbols == <<"BTCUSDT", "ETHUSDT", "BNBUSDT", "ADAUSDT", "XRPUSDT">>

\* BinanceClient._get_mock_top_symbols, the prices as exact quotients and
\* the quote volumes in thousands; i is the 0-based index of the code
_get_mock_top_symbols(count) ==
    [n \in 1..Min(Max(count, 0), Len(MockSymbols)) |->
        LET i == n - 1
            volume == 1000000 - i * 10000
        IN  [rank |-> i + 1,
             symbol |-> MockSymbols[n],
             price |-> Pct(50000, i + 1),
             change_24h |-> (i % 20) - 10,
             volume_24h |-> volume,
             quote_volume_24h |-> Pct(50 * volume, i + 1)]]

\* BinanceClient.get_top_symbols_by_volume when the ticker request fails:
\* the mock list stands in for the tickers
get_top_symbols_by_volume(count) == _get_mock_top_symbols(count)

\* mutant: the days of the request are not capped
CapDays_Uncapped(days) == days

\* days = min(days, 100)
CapDays(days) == Min(days, DaysCap)

\* the limit of the klines request
KlinesLimit(days_back) == Min(days_back + 10, KlinesMax)

\* what the exchange holds for a symbol from startTime on: nothing (or a
\* failing request), a short series and a long one, both ending in a rise
HistoryKinds == {"none", "short", "long"}

History(kind) ==
    IF kind = "none" THEN <<>>
    ELSE IF kind = "short" THEN Bars(60, 100, 100, 150)
    ELSE Bars(MinBars + 1, 100, 100, 150)

\* api BinanceClient.get_historical_klines: the exchange answers with at most
\* `limit` rows, the oldest first; a failure or an empty answer gives an
\* empty DataFrame
api_get_historical_klines(history, days_back) ==
    IF KlinesLimit(days_back) <= 0 THEN DataFrame(<<>>)
    ELSE DataFrame(Take(history, KlinesLimit(days_back)))

\* the keys f'ma_{period}' of the periods of MA_PERIODS
MaKeys == <<"ma_20", "ma_50", "ma_200">>

\* api TechnicalAnalysis.calculate_all_ma, without the timestamp, the trends
\* and the distances; a value that is None is NaN here
calculate_all_ma(df, symbol) ==
    IF df.close = <<>> THEN [symbol |-> symbol, error |-> "No price data available"]
    ELSE
    LET close_prices == df.close
        latest_price == close_prices[Len(close_prices)] * Scale
        Position(value) ==
            IF value = NaN \/ value = 0 THEN "None"
            ELSE IF latest_price > value THEN "above" ELSE "below"
        MaInfo(period) ==
            LET sma == api_calculate_sma(close_prices, period)
                ema == api_calculate_ema(close_prices, period)
                sma_value == sma[Len(sma)]
                ema_value == ema[Len(ema)]
            IN  [period |-> period,
                 sma_value |-> sma_value,
                 ema_value |-> ema_value,
                 price_vs_sma |-> Position(sma_value),
                 price_vs_ema |-> Position(ema_value)]
    IN  [symbol |-> symbol,
         current_price |-> latest_price,
         data_points |-> Len(close_prices),
         moving_averages |->
             [key \in Range(MaKeys) |->
                 MaInfo(MA_PERIODS[CHOOSE n \in DOMAIN MaKeys : MaKeys[n] = key])]]

\* mutant: the loop has no deadline
DeadlinePassed_Never(elapsed) == FALSE

\* time.time() - start_time > 8
DeadlinePassed(elapsed) == elapsed > Deadline

\* the seconds one request to the exchange may take
FetchSeconds == {0, MaxFetchSeconds \div 2, MaxFetchSeconds}

RECURSIVE SumOf(_, _)
SumOf(list, key) ==
    IF list = <<>> THEN 0 ELSE Head(list)[key] + SumOf(Tail(list), key)

\* sorted(list, key=lambda x: x['change_24h']): ascending and stable
RECURSIVE SortedByChange(_)
SortedByChange(list) ==
    IF list = <<>> THEN <<>>
    ELSE LET front == SortedByChange(SubSeq(list, 1, Len(list) - 1))
             x == list[Len(list)]
             after == Cardinality({n \in DOMAIN front :
                                      front[n].change_24h <= x.change_24h})
         IN  SubSeq(front, 1, after) \o <<x>> \o SubSeq(front, after + 1, Len(front))

\* an entry of top_movers
Mover(g) ==
    [rank |-> g.rank, symbol |-> g.symbol, change_24h |-> g.change_24h,
     price |-> g.price, volume_24h |-> g.quote_volume_24h]

\* the response of the market-summary endpoint after its loop, without the
\* timestamp and the processing time
SummaryResponse(days, top_symbols_data, symbols_analysis, processed_count) ==
    LET market_summary == get_market_summary(symbols_analysis)
        analysed == Take(top_symbols_data, processed_count)
        total_volume_24h == SumOf(analysed, "volume_24h")
        \* avg_change_24h rounded to 2 places, in hundredths
        average_change_24h ==
            RoundDiv(100 * SumOf(analysed, "change_24h"), Max(processed_count, 1))
        sorted_by_change == SortedByChange(analysed)
        top_gainers == Reverse(TakeLast(sorted_by_change, 5))
        top_losers == Take(sorted_by_change, 5)
    IN  [status |-> 200,
         success |-> TRUE,
         processing_info |-> [symbols_analyzed |-> processed_count,
                              data_period_days |-> days],
         market_overview |->
             [total_market_cap_analyzed |-> Len(symbols_analysis),
              total_volume_24h |-> total_volume_24h,
              average_change_24h |-> average_change_24h,
              market_sentiment |-> Get(market_summary, "market_sentiment", <<>>),
              market_strength |-> Get(market_summary, "market_strength", "neutral")],
         crossover_analysis |-> Get(market_summary, "crossover_summary", <<>>),
         top_movers |-> [gainers |-> [n \in DOMAIN top_gainers |-> Mover(top_gainers[n])],
                         losers |-> [n \in DOMAIN top_losers |-> Mover(top_losers[n])]],
         technical_summary |->
             [symbols_above_ma20 |-> AboveCount(symbols_analysis, "ma_20"),
              symbols_above_ma50 |-> AboveCount(symbols_analysis, "ma_50"),
              symbols_above_ma200 |-> AboveCount(symbols_analysis, "ma_200"),
              total_symbols |-> Len(symbols_analysis)]]

\* all_crossovers.sort(key=lambda x: x['timestamp'], reverse=True): the
\* most recent first, stable
RECURSIVE SortedByTimestamp(_)
SortedByTimestamp(list) ==
    IF list = <<>> THEN <<>>
    ELSE LET front == SortedByTimestamp(SubSeq(list, 1, Len(list) - 1))
             x == list[Len(list)]
             after == Cardinality({n \in DOMAIN front :
                                      FromIsoFormat(front[n].timestamp)
                                          >= FromIsoFormat(x.timestamp)})
         IN  SubSeq(front, 1, after) \o <<x>> \o SubSeq(front, after + 1, Len(front))

\* the response of the crossovers endpoint after its loop, without the
\* timestamp and the processing time
CrossoversResponse(count, days, crossovers, processed_symbols) ==
    LET all_crossovers == SortedByTimestamp(crossovers)
        golden_crosses == SelectSeq(all_crossovers, LAMBDA c : c.type = "GOLDEN_CROSS")
        death_crosses == SelectSeq(all_crossovers, LAMBDA c : c.type = "DEATH_CROSS")
    IN  [status |-> 200,
         success |-> TRUE,
         processing_info |-> [symbols_requested |-> count,
                              symbols_processed |-> processed_symbols,
                              days_analyzed |-> days],
         summary |-> [total_crossovers |-> Len(all_crossovers),
                      golden_crosses |-> Len(golden_crosses),
                      death_crosses |-> Len(death_crosses)],
         crossovers |-> [all |-> Take(all_crossovers, 100),
                         golden_crosses |-> Take(golden_crosses, 50),
                         death_crosses |-> Take(death_crosses, 50)]]

\* the request is parsed and the top symbols are fetched.  market-summary
\* takes start_time before that request, crossovers after it.
HandlerStart ==
    /\ call.pc = "request"
    /\ \E d \in FetchSeconds :
          LET count == Min(call.count, IF call.op = "market-summary" THEN 50 ELSE 100)
              days == CapDays(call.days)
          IN  call' = [call EXCEPT !.pc = "loop",
                         !.count = count,
                         !.days = days,
                         !.top_symbols_data = get_top_symbols_by_volume(count),
                         !.elapsed = IF call.op = "market-summary" THEN d ELSE 0]
    /\ UNCHANGED <<now, alert_file, alert_history, sent_alerts, pc, results, tainted, det>>

\* one iteration of the loop of market-summary.py that passes the deadline
\* check: the klines of the next symbol are fetched and analysed; `fetched`
\* keeps the symbol, the seconds since the loop began and the rows received
SummaryIteration ==
    /\ call.pc = "loop"
    /\ call.op = "market-summary"
    /\ call.k <= Len(call.top_symbols_data)
    /\ ~DeadlinePassed(call.elapsed)
    /\ \E d \in FetchSeconds :
          LET symbol_data == call.top_symbols_data[call.k]
              symbol == symbol_data.symbol
              df == api_get_historical_klines(History(call.upstream[call.k]), call.days)
              ma_analysis == calculate_all_ma(df, symbol)
              crossovers == detect_crossovers(df, symbol)
              symbol_analysis ==
                  [symbol |-> symbol,
                   rank |-> symbol_data.rank,
                   price |-> symbol_data.price,
                   change_24h |-> symbol_data.change_24h,
                   volume_24h |-> symbol_data.quote_volume_24h,
                   moving_averages |-> Get(ma_analysis, "moving_averages", <<>>),
                   crossovers |-> crossovers.events]
              appended == df.close # <<>> /\ crossovers.kind # "raise"
          IN  call' = [call EXCEPT
                         !.k = call.k + 1,
                         !.elapsed = call.elapsed + d,
                         !.since_loop = call.since_loop + d,
                         !.fetched = Append(call.fetched,
                                            [symbol |-> symbol, at |-> call.since_loop,
                                             rows |-> Len(df.close)]),
                         !.symbols_analysis =
                             IF appended THEN Append(call.symbols_analysis, symbol_analysis)
                             ELSE call.symbols_analysis,
                         !.processed = IF appended THEN call.processed + 1
                                       ELSE call.processed]
    /\ UNCHANGED <<now, alert_file, alert_history, sent_alerts, pc, results, tainted, det>>

\* the loop of market-summary.py ends, by exhaustion or by the deadline, and
\* the response is built and sent
SummaryRespond ==
    /\ call.pc = "loop"
    /\ call.op = "market-summary"
    /\ call.k > Len(call.top_symbols_data) \/ DeadlinePassed(call.elapsed)
    /\ call' = [call EXCEPT !.pc = "done",
                 !.response = SummaryResponse(call.days, call.top_symbols_data,
                                              call.symbols_analysis, call.processed)]
    /\ UNCHANGED <<now, alert_file, alert_history, sent_alerts, pc, results, tainted, det>>

\* one iteration of the loop of crossovers.py that passes the deadline check
CrossoversIteration ==
    /\ call.pc = "loop"
    /\ call.op = "crossovers"
    /\ call.k <= Len(call.top_symbols_data)
    /\ ~DeadlinePassed(call.elapsed)
    /\ \E d \in FetchSeconds :
          LET symbol_data == call.top_symbols_data[call.k]
              symbol == symbol_data.symbol
              df == api_get_historical_klines(History(call.upstream[call.k]), call.days)
              crossovers == IF df.close # <<>> THEN detect_crossovers(df, symbol)
                            ELSE Listed(<<>>)
              raised == crossovers.kind = "raise"
              updated == [n \in DOMAIN crossovers.events |->
                             [key \in DOMAIN crossovers.events[n]
                                      \cup {"rank", "current_price", "change_24h", "volume_24h"} |->
                                 CASE key = "rank" -> symbol_data.rank
                                   [] key = "current_price" -> symbol_data.price
                                   [] key = "change_24h" -> symbol_data.change_24h
                                   [] key = "volume_24h" -> symbol_data.quote_volume_24h
                                   [] OTHER -> crossovers.events[n][key]]]
          IN  call' = [call EXCEPT
                         !.k = call.k + 1,
                         !.elapsed = call.elapsed + d,
                         !.since_loop = call.since_loop + d,
                         !.fetched = Append(call.fetched,
                                            [symbol |-> symbol, at |-> call.since_loop,
                                             rows |-> Len(df.close)]),
                         !.all_crossovers = IF raised THEN call.all_crossovers
                                            ELSE call.all_crossovers \o updated,
                         !.processed = IF raised THEN call.processed
                                       ELSE call.processed + 1]
    /\ UNCHANGED <<now, alert_file, alert_history, sent_alerts, pc, results, tainted, det>>

\* the loop of crossovers.py ends and the response is built and sent
CrossoversRespond ==
    /\ call.pc = "loop"
    /\ call.op = "crossovers"
    /\ call.k > Len(call.top_symbols_data) \/ DeadlinePassed(call.elapsed)
    /\ call' = [call EXCEPT !.pc = "done",
                 !.response = CrossoversResponse(call.count, call.days,
                                                 call.all_crossovers, call.processed)]
    /\ UNCHANGED <<now, alert_file, alert_history, sent_alerts, pc, results, tainted, det>>

\* the days a request may ask for
RequestDays == {60, 500}

InitHandler ==
    /\ now = 0
    /\ alert_file = NoFile
    /\ alert_history = <<>>
    /\ sent_alerts = {}
    /\ pc = "down"
    /\ results = NoResults
    /\ tainted = FALSE
    /\ det = DetIdle
    /\ \E op \in {"market-summary", "crossovers"}, days \in RequestDays,
          upstream \in SeqsUpTo(HistoryKinds, MaxSymbols) :
          call = [pc |-> "request", op |-> op, count |-> Len(upstream),
                  days |-> days, upstream |-> upstream,
                  top_symbols_data |-> <<>>, k |-> 1, elapsed |-> 0,
                  since_loop |-> 0, fetched |-> <<>>, symbols_analysis |-> <<>>,
                  all_crossovers |-> <<>>, processed |-> 0, response |-> <<>>]

NextHandler ==
    \/ HandlerStart
    \/ SummaryIteration
    \/ SummaryRespond
    \/ CrossoversIteration
    \/ CrossoversRespond

SpecHandler == InitHandler /\ [][NextHandler]_vars

\* ------------------------------------------------------ batch functions
\* symbol_data, a dict in insertion order, is a list of [symbol, df]

\* a frame whose close column holds no numbers (dtype object)
ObjectFrame(close) == [close |-> close, columns |-> <<>>, dtype |-> "object"]

\* rolling(...).mean() and ewm(...).mean() raise on a column that holds no
\* numbers; calculate_sma reaches them when the column has `period` rows
MovingAveragesRaise(df) ==
    /\ Get(df, "dtype", "float64") = "object"
    /\ \E n \in DOMAIN MA_PERIODS : Len(df.close) >= MA_PERIODS[n]

\* TechnicalAnalysis.calculate_moving_average_data: `results`, as the list
\* of its [symbol, df], after the first k symbols
RECURSIVE MovingAverageLoop(_, _)
MovingAverageLoop(symbol_data, k) ==
    IF k = 0 THEN <<>>
    ELSE LET ma_results == MovingAverageLoop(symbol_data, k - 1)
             symbol == symbol_data[k].symbol
             df == symbol_data[k].df
         IN  IF MovingAveragesRaise(df) THEN ma_results
             ELSE Append(ma_results, [symbol |-> symbol,
                                   df |-> calculate_all_moving_averages(df)])

calculate_moving_average_data(symbol_data) ==
    MovingAverageLoop(symbol_data, Len(symbol_data))

\* mutant: an exception ends the batch with nothing
DetectAllStep_Abort(all_crossovers, symbol_crossovers) ==
    IF symbol_crossovers.kind = "raise" THEN <<>>
    ELSE all_crossovers \o symbol_crossovers.events

\* the body of the loop of detect_all_crossovers: extend, or continue after
\* an exception
DetectAllStep(all_crossovers, symbol_crossovers) ==
    IF symbol_crossovers.kind = "raise" THEN all_crossovers
    ELSE all_crossovers \o symbol_crossovers.events

\* SignalDetector.detect_all_crossovers: all_crossovers after the first k
\* symbols
RECURSIVE DetectAllLoop(_, _)
DetectAllLoop(symbol_data, k) ==
    IF k = 0 THEN <<>>
    ELSE DetectAllStep(DetectAllLoop(symbol_data, k - 1),
                       analyze_symbol_crossovers(symbol_data[k].symbol,
                                                 symbol_data[k].df))

detect_all_crossovers(symbol_data) == DetectAllLoop(symbol_data, Len(symbol_data))

\* the frames of a batch: one with a golden cross of SMA 20/50, one whose
\* first pair raises (current slow value 0), one whose first pair gives an
\* event and whose last pair raises, one of 20 bars without averages, and
\* one of 20 bars that are no numbers
FrameKinds == {"cross", "raising", "partial", "bars", "object"}

CrossColumns(columns) ==
    [c \in columns |->
        IF c = <<"SMA", 20>> THEN PriceSeries(10, 12)
        ELSE IF c = <<"SMA", 50>> THEN PriceSeries(11, 11)
        ELSE IF c = <<"EMA", 20>> THEN PriceSeries(0, 10)
        ELSE PriceSeries(0, 0)]

Frame(kind) ==
    CASE kind = "cross" ->
            [close |-> PriceSeries(10, 12),
             columns |-> CrossColumns({<<"SMA", 20>>, <<"SMA", 50>>})]
      [] kind = "raising" ->
            [close |-> PriceSeries(0, 10),
             columns |-> [c \in {<<"SMA", 20>>, <<"SMA", 50>>} |->
                             IF c[2] = 20 THEN PriceSeries(0, 10) ELSE PriceSeries(0, 0)]]
      [] kind = "partial" ->
            [close |-> PriceSeries(10, 12),
             columns |-> CrossColumns({<<"SMA", 20>>, <<"SMA", 50>>,
                                       <<"EMA", 20>>, <<"EMA", 50>>})]
      [] kind = "bars" -> DataFrame(Bars(20, 100, 100, 110))
      [] kind = "object" -> ObjectFrame(Bars(20, 100, 100, 110))

SymbolData(kinds) ==
    [n \in DOMAIN kinds |-> [symbol |-> MockSymbols[n], df |-> Frame(kinds[n])]]

\* detect_all_crossovers and calculate_moving_average_data applied to one
\* symbol_data
Batch ==
    /\ call.pc = "input"
    /\ call.op = "batch"
    /\ call' = [call EXCEPT !.pc = "done",
                 !.all_crossovers = detect_all_crossovers(SymbolData(call.kinds)),
                 !.results = calculate_moving_average_data(SymbolData(call.kinds))]
    /\ UNCHANGED <<now, alert_file, alert_history, sent_alerts, pc, results, tainted, det>>

InitBatch ==
    /\ now = 0
    /\ alert_file = NoFile
    /\ alert_history = <<>>
    /\ sent_alerts = {}
    /\ pc = "down"
    /\ results = NoResults
    /\ tainted = FALSE
    /\ det = DetIdle
    /\ \E kinds \in SeqsUpTo(FrameKinds, MaxSymbols) :
          call = [pc |-> "input", op |-> "batch", kinds |-> kinds,
                  all_crossovers |-> <<>>, results |-> <<>>]

NextBatch == Batch

SpecBatch == InitBatch /\ [][NextBatch]_vars

\* ------------------------------------------- serverless request cache
\* api/utils/binance_client.py: the module-level dicts _cache and
\* _cache_timeout, as functions of the keys they hold; the clock in seconds

\* mutant: an entry of exactly cache_duration seconds is still valid
_is_cache_valid_Inclusive(cache, cache_timeout, key, t) ==
    /\ key \in DOMAIN cache
    /\ t - Get(cache_timeout, key, 0) <= CacheDuration

_is_cache_valid(cache, cache_timeout, key, t) ==
    /\ key \in DOMAIN cache
    /\ t - Get(cache_timeout, key, 0) < CacheDuration

\* d with d[key] = value
SetItem(d, key, value) ==
    [k \in DOMAIN d \cup {key} |-> IF k = key THEN value ELSE d[k]]

\* _make_request at time t for the key, where the exchange, if it is asked,
\* answers with upstream: [ok |-> TRUE, data |-> ...] or [ok |-> FALSE]
_make_request(cache, cache_timeout, key, t, upstream) ==
    IF _is_cache_valid(cache, cache_timeout, key, t)
    THEN [cache |-> cache, cache_timeout |-> cache_timeout, contacted |-> FALSE,
          raised |-> FALSE, data |-> cache[key]]
    ELSE IF upstream.ok
    THEN [cache |-> SetItem(cache, key, upstream.data),
          cache_timeout |-> SetItem(cache_timeout, key, t),
          contacted |-> TRUE, raised |-> FALSE, data |-> upstream.data]
    ELSE IF key \in DOMAIN cache
    THEN [cache |-> cache, cache_timeout |-> cache_timeout, contacted |-> TRUE,
          raised |-> FALSE, data |-> cache[key]]
    ELSE [cache |-> cache, cache_timeout |-> cache_timeout, contacted |-> TRUE,
          raised |-> TRUE, data |-> 0]

\* the cache keys of two requests and the answers of the exchange
CacheKeys == {"ticker/24hr", "klines_symbol_BTCUSDT"}

UpstreamAnswers == {[ok |-> FALSE]} \cup {[ok |-> TRUE, data |-> d] : d \in 1..2}

\* the clock advances by half a cache_duration
ClockStep == CacheDuration \div 2

NoRequest == [key |-> "", t |-> 0, upstream |-> [ok |-> FALSE], cache |-> <<>>,
              cache_timeout |-> <<>>, contacted |-> FALSE, raised |-> FALSE,
              data |-> 0]

\* one call of _make_request; `last` keeps the call, the cache it found and
\* its outcome
MakeRequest ==
    /\ call.pc = "serving"
    /\ \E key \in CacheKeys, upstream \in UpstreamAnswers :
          LET r == _make_request(call.cache, call.cache_timeout, key, call.t, upstream)
          IN  call' = [call EXCEPT
                         !.cache = r.cache,
                         !.cache_timeout = r.cache_timeout,
                         !.last = [key |-> key, t |-> call.t, upstream |-> upstream,
                                   cache |-> call.cache,
                                   cache_timeout |-> call.cache_timeout,
                                   contacted |-> r.contacted, raised |-> r.raised,
                                   data |-> r.data]]
    /\ UNCHANGED <<now, alert_file, alert_history, sent_alerts, pc, results, tainted, det>>

\* time passes between two requests
CacheClock ==
    /\ call.pc = "serving"
    /\ call.t + ClockStep <= MaxClockSteps * ClockStep
    /\ call' = [call EXCEPT !.t = call.t + ClockStep]
    /\ UNCHANGED <<now, alert_file, alert_history, sent_alerts, pc, results, tainted, det>>

InitCache ==
    /\ now = 0
    /\ alert_file = NoFile
    /\ alert_history = <<>>
    /\ sent_alerts = {}
    /\ pc = "down"
    /\ results = NoResults
    /\ tainted = FALSE
    /\ det = DetIdle
    /\ call = [pc |-> "serving", op |-> "cache", t |-> 0, cache |-> <<>>,
               cache_timeout |-> <<>>, last |-> NoRequest]

NextCache == MakeRequest \/ CacheClock

SpecCache == InitCache /\ [][NextCache]_vars

\* ------------------------------------------------------ retry_on_exception

\* the exception classes a wrapped function raises; all derive from Exception
ExceptionNames == {"RequestException", "BinanceAPIException", "ValueError"}

\* what one request to the exchange gives: rows, nothing, or an exception
RetryAnswers == {"data", "empty"} \cup ExceptionNames

\* `except exceptions as e`: e is an instance of one of the classes listed
Catches(exceptions, e) == "Exception" \in exceptions \/ e \in exceptions

\* the decorator's wait before the attempt after `attempt`
Backoff(delay, attempt) == delay * (2 ^ attempt)

ShouldRetry_OneMore(attempt, max_retries) == attempt <= max_retries

\* the branch of the except clause that sleeps and continues
ShouldRetry(attempt, max_retries) == attempt < max_retries

EmptyDataFrame == Returned("empty")

get_historical_klines_Reraise(answer) ==
    IF answer \in ExceptionNames THEN Raise(answer)
    ELSE IF answer = "empty" THEN EmptyDataFrame
    ELSE Returned("data")

\* BinanceClient.get_historical_klines of the command-line client: one request
\* inside a try whose two except clauses both return an empty DataFrame
get_historical_klines(answer) ==
    IF answer \in {"RequestException", "BinanceAPIException"} THEN EmptyDataFrame
    ELSE IF answer \in ExceptionNames THEN EmptyDataFrame
    ELSE IF answer = "empty" THEN EmptyDataFrame
    ELSE Returned("data")

\* BinanceClient.get_24hr_ticker_stats: one request; both except clauses log
\* and raise the exception again
get_24hr_ticker_stats(answer) ==
    IF answer \in {"RequestException", "BinanceAPIException"} THEN Raise(answer)
    ELSE IF answer \in ExceptionNames THEN Raise(answer)
    ELSE Returned(answer)

\* a wrapped function that raises what its request raises
func(answer) ==
    IF answer \in ExceptionNames THEN Raise(answer) ELSE Returned(answer)

Invoke(name, answer) ==
    CASE name = "get_historical_klines" -> get_historical_klines(answer)
      [] name = "get_24hr_ticker_stats" -> get_24hr_ticker_stats(answer)
      [] OTHER -> func(answer)

\* one pass of the wrapper's loop body up to the sleep: func is invoked once
\* and makes one request; a return value ends the call, an exception not
\* listed propagates, a listed one is kept in last_exception and either leads
\* to the sleep or is raised
WrapperAttempt ==
    /\ call.pc = "try"
    /\ call.op = "retry"
    /\ call.attempt <= call.max_retries
    /\ \E answer \in RetryAnswers :
         LET r == Invoke(call.func, answer)
             invoked == [call EXCEPT !.answers = Append(@, answer),
                                     !.outcomes = Append(@, r)]
         IN  call' =
               IF r.kind # "raise"
               THEN [invoked EXCEPT !.pc = "returned", !.result = r]
               ELSE IF ~Catches(call.exceptions, r.exception)
               THEN [invoked EXCEPT !.pc = "raised", !.result = r]
               ELSE IF ShouldRetry(call.attempt, call.max_retries)
               THEN [invoked EXCEPT !.pc = "sleep",
                                    !.last_exception = r.exception]
               ELSE [invoked EXCEPT !.pc = "raised",
                                    !.last_exception = r.exception,
                                    !.result = Raise(r.exception)]
    /\ UNCHANGED <<now, alert_file, alert_history, sent_alerts, pc, results,
                   tainted, det>>

\* time.sleep(delay * (2 ** attempt)); continue
WrapperSleep ==
    /\ call.pc = "sleep"
    /\ call.op = "retry"
    /\ call' = [call EXCEPT !.pc = "try",
                            !.waits = Append(@, Backoff(call.delay, call.attempt)),
                            !.attempt = @ + 1]
    /\ UNCHANGED <<now, alert_file, alert_history, sent_alerts, pc, results,
                   tainted, det>>

Delays == {1, 2}

ExceptionLists == {{"Exception"}, {"RequestException"}}

\* the two decorated methods of the client with the settings' arguments and
\* the default `exceptions`; func with arguments from small sets
RetryCalls ==
    [func : {"get_historical_klines", "get_24hr_ticker_stats"},
     max_retries : {MAX_RETRIES}, delay : {RETRY_DELAY},
     exceptions : {{"Exception"}}]
    \cup [func : {"func"}, max_retries : 0..MaxRetries, delay : Delays,
          exceptions : ExceptionLists]

InitRetry ==
    /\ now = 0
    /\ alert_file = NoFile
    /\ alert_history = <<>>
    /\ sent_alerts = {}
    /\ pc = "down"
    /\ results = NoResults
    /\ tainted = FALSE
    /\ det = DetIdle
    /\ \E c \in RetryCalls :
         call = [pc |-> "try", op |-> "retry", func |-> c.func,
                 max_retries |-> c.max_retries, delay |-> c.delay,
                 exceptions |-> c.exceptions, attempt |-> 0,
                 last_exception |-> "", answers |-> <<>>, outcomes |-> <<>>,
                 waits |-> <<>>, result |-> None]

NextRetry == WrapperAttempt \/ WrapperSleep

\* the wrapper is sequential code: a step that can be taken is taken
SpecRetry == InitRetry /\ [][NextRetry]_vars /\ WF_vars(NextRetry)

\* ================================================================== claims

AlertsWithId(history, id) == {i \in DOMAIN history : history[i].id = id}

FileData(file) == IF file.kind = "json" THEN file.data ELSE <<>>

IsPrefix(a, b) == Len(a) <= Len(b) /\ SubSeq(b, 1, Len(a)) = a

InputId(k) == generate_alert_id(results.input[k], results.at)

\* position k of the run's input was reached with its identifier not yet in
\* the delivered set
IsNew(k) ==
    /\ InputId(k) \notin results.sent0
    /\ \A j \in 1..(k - 1) : InputId(j) # InputId(k)

\* C1: after a run, every event it submitted has an alert of its identifier in
\* alert_history, and at most one alert of that identifier was created in the
\* current clock hour, however often the event was submitted in this hour, in
\* this run or in runs before a restart: exactly one when none is older.
C1_SubmittedTwiceLeavesOne ==
    pc = "returned" =>
        \A k \in DOMAIN results.input :
            LET same == AlertsWithId(alert_history, InputId(k))
                this_hour == {i \in same :
                    StrftimeHour(AlertTime(alert_history[i])) = StrftimeHour(now)}
            IN  Cardinality(same) >= 1 /\ Cardinality(this_hour) <= 1

\* the same event submitted twice in one run, after it was submitted and
\* delivered by a run of an earlier process in the same clock hour
C1_Witness ==
    /\ pc = "returned"
    /\ Len(results.input) = 2
    /\ InputId(1) = InputId(2)
    /\ results.alerts = <<>>
    /\ alert_history # <<>>
    /\ AlertTime(alert_history[1]) < now
    /\ StrftimeHour(AlertTime(alert_history[1])) = StrftimeHour(now)
    /\ Cardinality(AlertsWithId(alert_history, InputId(1))) = 1

NoDupWithinWindow(history) ==
    \A i, j \in DOMAIN history :
        i < j /\ history[i].id = history[j].id =>
            AlertTime(history[j]) - AlertTime(history[i]) > Hours(HoursBack)

\* C2 as stated: in every reachable state, whatever list add_alerts_to_history
\* was given, no two alerts of alert_history share an id and were created
\* within 24 hours of each other.
C2_Original == NoDupWithinWindow(alert_history)

\* C2 amended: as long as add_alerts_to_history was only called by the run, on
\* the list process_crossovers_to_alerts returned, no two alerts of the
\* history (in memory or on disk) share an id and were created within 24 hours
\* of each other.
C2_PipelineNoDupWithinWindow ==
    ~tainted => NoDupWithinWindow(alert_history) /\ NoDupWithinWindow(FileData(alert_file))

\* the pipeline alone has put two alerts of one id in the history, more than
\* 24 hours apart
C2_Witness ==
    /\ ~tainted
    /\ \E i, j \in DOMAIN alert_history :
          i < j /\ alert_history[i].id = alert_history[j].id

ExpectedAlerts ==
    LET idx == [k \in DOMAIN results.input |-> k]
        new_idx == SelectSeq(idx, IsNew)
    IN  [n \in DOMAIN new_idx |->
            create_alert(results.input[new_idx[n]],
                         classify_signal_importance(results.input[new_idx[n]]),
                         results.at)]

\* C3: a run returns one alert for each input event whose identifier was not
\* in sent_alerts when the event was reached, in input order, nothing for the
\* others, and appends exactly the returned alerts to alert_history.
C3_PartitionNewDuplicate ==
    pc = "returned" =>
        /\ results.alerts = ExpectedAlerts
        /\ alert_history = results.history0 \o results.alerts

\* a run whose input holds a new event, a repeat of it and an event that was
\* delivered before
C3_Witness ==
    /\ pc = "returned"
    /\ Len(results.input) = 2
    /\ Len(results.alerts) = 1
    /\ results.history0 # <<>>
    /\ \E k \in DOMAIN results.input : InputId(k) \in results.sent0

\* C4 as stated: an event whose identifier is already in the delivered set
\* gets no alert and the importance classifier is not invoked on it.
C4_DuplicateNeverRescored ==
    pc = "returned" =>
        \A k \in DOMAIN results.input :
            ~IsNew(k) =>
                /\ k \notin results.scored
                /\ Len(results.alerts) < Len(results.input)

\* C5 as stated: when a run that produced new alerts has returned, the history
\* file holds the in-memory alert_history.
C5_Original ==
    pc = "returned" /\ results.alerts # <<>> =>
        alert_file = JsonFile(alert_history)

\* C5 amended: when a run that produced new alerts has returned and the write
\* of the history file did not fail, the file holds the in-memory
\* alert_history, which ends with the new alerts.
C5_PersistedWhenWriteSucceeds ==
    pc = "returned" /\ results.alerts # <<>> /\ results.write = "ok" =>
        /\ alert_file = JsonFile(alert_history)
        /\ FileData(alert_file) = results.history0 \o results.alerts

\* a run added new alerts to a history that held some, and wrote the file
C5_Witness ==
    /\ pc = "returned"
    /\ results.alerts # <<>>
    /\ results.write = "ok"
    /\ results.history0 # <<>>
    /\ alert_file = JsonFile(alert_history)

\* C6 as stated: without cleanup_old_alerts, no step takes an alert out of the
\* persisted history: the file's alerts before a step begin the file's alerts
\* after it.
C6_AppendOnly ==
    [][IsPrefix(FileData(alert_file), FileData(alert_file'))]_vars

\* C7: when the write of the history file fails, nothing is raised, the new
\* alerts are returned and are in alert_history, and the run reports success.
C7_WriteFailureDoesNotFailRun ==
    pc = "returned" /\ results.write \in {"fail_open", "fail_dump"} =>
        /\ ~results.raised
        /\ results.success
        /\ results.alerts # <<>>
        /\ alert_history = results.history0 \o results.alerts

\* a run whose history write failed after truncating a file that held alerts
C7_Witness ==
    /\ pc = "returned"
    /\ results.write = "fail_dump"
    /\ alert_file = CorruptFile
    /\ results.history0 # <<>>
    /\ results.success

\* events that agree or differ in each of the four key values and in others
IdEvents ==
    {Event(symbol, ma_type, 20, 50, type, ts, fastv, 100, Pct(Abs(fastv - 100), 1), strength) :
        symbol \in {"BTCUSDT", "ETHUSDT"}, ma_type \in {"SMA", "EMA"},
        type \in {"GOLDEN_CROSS", "DEATH_CROSS"}, ts \in {0, 1, TicksPerHour},
        fastv \in {104}, strength \in {"WEAK", "STRONG"}}

KeyAgrees(e, alert) ==
    /\ e.symbol = alert.symbol
    /\ e.crossover_name = alert.crossover_name
    /\ e.type = alert.signal_type
    /\ StrftimeHour(e.timestamp) = StrftimeHour(FromIsoFormat(alert.crossover_timestamp))

\* C8: the id an alert got when it was created equals the id generate_alert_id
\* gives now to an event carrying a timestamp exactly when the event agrees
\* with the alert's event on symbol, crossover_name, type and the hour of the
\* timestamp, whatever the other fields and the time of the call.
C8_IdIsFunctionOfKey ==
    \A i \in DOMAIN alert_history, e \in IdEvents :
        (generate_alert_id(e, now) = alert_history[i].id) <=> KeyAgrees(e, alert_history[i])

\* an alert and an event of another tick of the same hour, with another
\* strength, get the same id at different times
C8_Witness ==
    \E i \in DOMAIN alert_history, e \in IdEvents :
        /\ generate_alert_id(e, now) = alert_history[i].id
        /\ e.timestamp # FromIsoFormat(alert_history[i].crossover_timestamp)
        /\ e.strength # alert_history[i].strength
        /\ now # AlertTime(alert_history[i])

BothDefined == Len(dropna(det.fast_ma)) >= 2 /\ Len(dropna(det.slow_ma)) >= 2

\* what the claim expects of the last two defined values
ExpectedCross ==
    LET f == dropna(det.fast_ma)
        s == dropna(det.slow_ma)
    IN  CrossoverType(f[Len(f) - 1], s[Len(s) - 1], f[Len(f)], s[Len(s)])

Expect(result, type) ==
    IF type = "None" THEN result = None
    ELSE result.kind = "event" /\ result.event.type = type

\* C9 as stated: for series with at least two defined values each, both
\* detectors return GOLDEN_CROSS iff f_prev <= s_prev and f_cur > s_cur,
\* DEATH_CROSS iff f_prev >= s_prev and f_cur < s_cur, and no event otherwise.
C9_DetectionRule ==
    det.pc = "done" /\ BothDefined =>
        /\ Expect(det.cli, ExpectedCross)
        /\ Expect(det.api, ExpectedCross)

Returns(result, type) == result.kind = "event" /\ result.event.type = type

Antisymmetric(original, swapped) ==
    /\ Returns(swapped, "DEATH_CROSS") <=> Returns(original, "GOLDEN_CROSS")
    /\ Returns(swapped, "GOLDEN_CROSS") <=> Returns(original, "DEATH_CROSS")
    /\ swapped = None <=> original = None

\* C10 as stated: with fast and slow swapped a detector returns DEATH_CROSS
\* exactly when it returned GOLDEN_CROSS, GOLDEN_CROSS exactly when it returned
\* DEATH_CROSS, and no event exactly when it returned none.
C10_Antisymmetric ==
    det.pc = "done" =>
        /\ Antisymmetric(det.cli, det.cli_swapped)
        /\ Antisymmetric(det.api, det.api_swapped)

CurrentSlow == LET s == dropna(det.slow_ma) IN s[Len(s)]

\* C11 as stated: when a crossover is detected and the current slow value is
\* 0, neither detector raises: each yields an event, the CLI's with strength
\* or percentage_diff 0.
C11_ZeroSlowGuarded ==
    det.pc = "done" /\ BothDefined /\ ExpectedCross # "None" /\ CurrentSlow = 0 =>
        /\ det.cli.kind = "event"
        /\ det.cli.event.percentage_diff.num = 0 \/ det.cli.event.strength = 0
        /\ det.api.kind = "event"

\* the tier the claim gives to |f - s| / s * 100, for s > 0
TierOf(f, s) ==
    IF Abs(f - s) * 100 > 10 * s THEN "STRONG"
    ELSE IF Abs(f - s) * 100 > 5 * s THEN "MEDIUM"
    ELSE IF Abs(f - s) * 100 > 1 * s THEN "WEAK"
    ELSE "MINIMAL"

Scenario13 ==
    /\ det.pc = "done"
    /\ SubSeq(det.fast_ma, Len(det.fast_ma) - 2, Len(det.fast_ma)) = <<10, 10, 12>>
    /\ SubSeq(det.slow_ma, Len(det.slow_ma) - 2, Len(det.slow_ma)) = <<11, 11, 11>>

\* p is about 9.09 per cent
About909(p) == 909 * p.den <= 100 * p.num /\ 100 * p.num < 910 * p.den

ScenarioEvent(strength) ==
    /\ det.cli.kind = "event"
    /\ det.cli.event.type = "GOLDEN_CROSS"
    /\ det.cli.event.timestamp = Len(det.fast_ma)
    /\ About909(det.cli.event.percentage_diff)
    /\ det.cli.event.strength = strength

\* C13 as stated: fast ending 10, 10, 12 and slow ending 11, 11, 11 yield a
\* GOLDEN_CROSS at the last index with percentage_diff about 9.09 and strength
\* WEAK.
C13_Original == Scenario13 => ScenarioEvent("WEAK")

\* C13 amended: the same scenario yields a GOLDEN_CROSS at the last index with
\* percentage_diff about 9.09 and strength MEDIUM (9.09 > 5), in the CLI
\* detector; the serverless detector yields the GOLDEN_CROSS with
\* signal_strength about 9.09.
C13_ScenarioMedium ==
    Scenario13 =>
        /\ ScenarioEvent("MEDIUM")
        /\ det.api.kind = "event"
        /\ det.api.event.type = "GOLDEN_CROSS"
        /\ det.api.event.timestamp = IsoFormat(Len(det.fast_ma))
        /\ About909(det.api.event.signal_strength)

\* C13 witness: the detectors have been applied to the scenario's series.
C13_Witness == Scenario13 /\ det.cli.kind = "event"

Triple(event) == <<event.ma_type, event.fast_period, event.slow_period>>

\* at most three events, at most one per configured triple, and with fewer
\* than 200 bars none for the 50/200 pair, hence at most two
SymbolEventsBounded(result, bars) ==
    /\ result.kind = "list"
    /\ Len(result.events) <= 3
    /\ \A i, j \in DOMAIN result.events :
          Triple(result.events[i]) = Triple(result.events[j]) => i = j
    /\ \A i \in DOMAIN result.events :
          \E k \in DOMAIN CROSSOVER_TYPES :
              Triple(result.events[i])
                = <<CROSSOVER_TYPES[k].type, CROSSOVER_TYPES[k].fast, CROSSOVER_TYPES[k].slow>>
    /\ bars < 200 =>
          /\ \A i \in DOMAIN result.events : result.events[i].slow_period # 200
          /\ Len(result.events) <= 2

\* C14: a symbol yields between 0 and 3 crossover events, at most one per
\* configured (fast, slow, kind) triple; with fewer than 200 bars it yields
\* none for the 50/200 pair, hence at most 2; no error is raised; in the CLI
\* and in the serverless detector.
C14_EventsPerSymbol ==
    call.pc = "done" /\ call.op = "analyze_symbol" =>
        /\ SymbolEventsBounded(call.cli, Len(call.df.close))
        /\ SymbolEventsBounded(call.api, Len(call.df.close))

\* C14 witness: a symbol with exactly 199 bars has yielded two events.
C14_Witness ==
    /\ call.pc = "done" /\ call.op = "analyze_symbol"
    /\ Len(call.df.close) = 199
    /\ call.cli.kind = "list" /\ Len(call.cli.events) = 2

\* the additive score as the claim states it, from the four attributes
ClaimedScore(slow_period, strength, ma_type, percentage_diff) ==
    (IF slow_period >= 200 THEN 3 ELSE IF slow_period >= 50 THEN 2 ELSE 1)
    + (CASE strength = "STRONG" -> 3 [] strength = "MEDIUM" -> 2
         [] strength = "WEAK" -> 1 [] strength = "MINIMAL" -> 0)
    + (IF ma_type = "EMA" THEN 1 ELSE 0)
    + (IF percentage_diff.num > 5 * percentage_diff.den THEN 2
       ELSE IF percentage_diff.num > 2 * percentage_diff.den THEN 1 ELSE 0)

ClaimedTier(score) ==
    IF score >= 7 THEN "HIGH" ELSE IF score >= 4 THEN "MEDIUM" ELSE "LOW"

Classified == call.pc = "done" /\ call.op = "classify"

\* C15: classify_signal_importance returns the tier (>= 7 HIGH, >= 4 MEDIUM,
\* else LOW) of the additive score of slow_period, strength, ma_type and
\* percentage_diff, and so depends on nothing but these four attributes.
C15_ImportanceScore ==
    Classified =>
        LET e == call.crossover
            score == ClaimedScore(e.slow_period, e.strength, e.ma_type, e.percentage_diff)
        IN  /\ call.importance_score = score
            /\ call.importance = ClaimedTier(score)

\* C15 witness: an EMA event of score exactly 7 (50-period slow, STRONG,
\* percentage_diff 2.5) has been classified HIGH.
C15_Witness ==
    /\ Classified
    /\ call.crossover.ma_type = "EMA" /\ call.crossover.slow_period = 50
    /\ call.crossover.strength = "STRONG" /\ call.crossover.percentage_diff = Pct(5, 2)
    /\ call.importance = "HIGH"

StrengthRank(strength) ==
    CASE strength = "MINIMAL" -> 0 [] strength = "WEAK" -> 1
      [] strength = "MEDIUM" -> 2 [] strength = "STRONG" -> 3

\* e and f differ in at most the attribute named, where f is at least e
RaisedIn(attribute, e, f) ==
    /\ \A k \in DOMAIN e \ {attribute} : f[k] = e[k]
    /\ CASE attribute = "slow_period" -> f.slow_period >= e.slow_period
         [] attribute = "strength" -> StrengthRank(f.strength) >= StrengthRank(e.strength)
         [] attribute = "percentage_diff" ->
                f.percentage_diff.num * e.percentage_diff.den
                    >= e.percentage_diff.num * f.percentage_diff.den

Ranked == call.pc = "done" /\ call.op = "rank"

Count(seq, x) == Cardinality({i \in DOMAIN seq : seq[i] = x})

TierRank(event) ==
    CASE event.importance = "HIGH" -> 3 [] event.importance = "MEDIUM" -> 2
      [] event.importance = "LOW" -> 1

SameKey(x, y) ==
    /\ TierRank(x) = TierRank(y)
    /\ x.percentage_diff.num * y.percentage_diff.den
         = y.percentage_diff.num * x.percentage_diff.den

\* x may stand before y: higher tier, or the same tier and a percentage_diff
\* at least as large
MayPrecede(x, y) ==
    \/ TierRank(x) > TierRank(y)
    \/ /\ TierRank(x) = TierRank(y)
       /\ x.percentage_diff.num * y.percentage_diff.den
            >= y.percentage_diff.num * x.percentage_diff.den

\* C17: rank_signals_by_importance returns a permutation of its input (the
\* events of the caller's list), ordered by importance tier descending, then
\* by percentage_diff descending, events of equal tier and percentage_diff in
\* their input order.
C17_RankedStable ==
    Ranked =>
        /\ Len(call.result) = Len(call.crossovers)
        /\ \A i \in DOMAIN call.result :
              /\ Count(call.result, call.result[i]) = Count(call.crossovers_after, call.result[i])
              /\ call.result[i].importance
                    = classify_signal_importance(call.result[i])
        /\ \A i, j \in DOMAIN call.result :
              i < j => MayPrecede(call.result[i], call.result[j])
        /\ \A i \in DOMAIN call.result :
              SelectSeq(call.result, LAMBDA x : SameKey(x, call.result[i]))
                = SelectSeq(call.crossovers_after, LAMBDA x : SameKey(x, call.result[i]))

\* C17 witness: a list [LOW (ETHUSDT), HIGH, LOW (BTCUSDT)] has been ranked
\* to [HIGH, LOW (ETHUSDT), LOW (BTCUSDT)].
C17_Witness ==
    /\ Ranked
    /\ Len(call.crossovers) = 3
    /\ call.crossovers[1].symbol = "ETHUSDT" /\ call.crossovers[1].strength = "MINIMAL"
    /\ call.crossovers[2].strength = "STRONG"
    /\ call.crossovers[3].symbol = "BTCUSDT" /\ call.crossovers[3].strength = "MINIMAL"
    /\ call.result[1].importance = "HIGH"
    /\ call.result[2].symbol = "ETHUSDT" /\ call.result[2].importance = "LOW"
    /\ call.result[3].symbol = "BTCUSDT" /\ call.result[3].importance = "LOW"

\* C18 as stated: ranking leaves every event of its input list unchanged,
\* adding, removing or modifying no field of it.
C18_EventsUnchanged ==
    Ranked => call.crossovers_after = call.crossovers

\* the series has the length of the input and is undefined at every index
\* with fewer than `period` samples up to and including it
UndefinedBefore(series, data, period) ==
    /\ Len(series) = Len(data)
    /\ \A i \in DOMAIN series : i < period => series[i] = NaN

\* C19 as stated: for SMA and EMA of period p over a series of any length,
\* the value at an index with fewer than p samples up to and including it is
\* undefined, in the CLI and in the API.
C19_UndefinedBeforePeriod ==
    call.pc = "done" /\ call.op = "moving_averages" =>
        /\ UndefinedBefore(call.sma, call.data, call.period)
        /\ UndefinedBefore(call.ema, call.data, call.period)
        /\ UndefinedBefore(call.api_sma, call.data, call.period)
        /\ UndefinedBefore(call.api_ema, call.data, call.period)

\* the tier of the score of the claim in exact arithmetic,
\* score = (3 a20 + 4 a50 + 3 a200) / (10 total)
ClaimedStrength(above_ma20, above_ma50, above_ma200, total) ==
    LET tenths == 3 * above_ma20 + 4 * above_ma50 + 3 * above_ma200
    IN  IF total = 0 THEN "neutral"
        ELSE IF tenths > 7 * total THEN "very_bullish"
        ELSE IF 2 * tenths > 11 * total THEN "bullish"
        ELSE IF 2 * tenths > 9 * total THEN "neutral"
        ELSE IF tenths > 3 * total THEN "bearish"
        ELSE "very_bearish"

\* a sentiment percentage is count / total * 100 and lies between 0 and 100
SentimentOf(pct, count, total) ==
    /\ pct.num * total = count * 100 * pct.den
    /\ pct.num >= 0
    /\ pct.num <= 100 * pct.den

Summarised == call.pc = "done" /\ call.op = "market_summary"

\* C20 as stated: for any non-zero number of symbols the market strength is
\* the tier of score = 0.3 * (fraction above MA20) + 0.4 * (fraction above
\* MA50) + 0.3 * (fraction above MA200), above 0.7 very_bullish, above 0.55
\* bullish, above 0.45 neutral, above 0.3 bearish, else very_bearish, and
\* every sentiment percentage is count / total * 100 within [0, 100].
C20_MarketStrength ==
    Summarised /\ call.symbols_data # <<>> =>
        LET above_ma20 == AboveCount(call.symbols_data, "ma_20")
            above_ma50 == AboveCount(call.symbols_data, "ma_50")
            above_ma200 == AboveCount(call.symbols_data, "ma_200")
            total == Len(call.symbols_data)
            sentiment == call.summary.market_sentiment
        IN  /\ call.summary.market_strength =
                   ClaimedStrength(above_ma20, above_ma50,
                                                    above_ma200, total)
            /\ SentimentOf(sentiment.above_ma20_pct, above_ma20, total)
            /\ SentimentOf(sentiment.above_ma50_pct, above_ma50, total)
            /\ SentimentOf(sentiment.above_ma200_pct, above_ma200, total)

\* the market-summary handler has answered
SummaryAnswered == call.pc = "done" /\ call.op = "market-summary"

SentimentKeys == {"above_ma20_pct", "above_ma50_pct", "above_ma200_pct"}

\* C21 as stated: with zero symbols with data the market summary answers
\* without an exception, with strength neutral and with the three sentiment
\* percentages equal to 0.
C21_ZeroSymbols ==
    SummaryAnswered /\ call.symbols_analysis = <<>> =>
        LET overview == call.response.market_overview
        IN  /\ call.response.status = 200
            /\ overview.market_strength = "neutral"
            /\ \A key \in SentimentKeys :
                  /\ key \in DOMAIN overview.market_sentiment
                  /\ overview.market_sentiment[key].num = 0

Batched == call.pc = "done" /\ call.op = "batch"

\* the analysis of the symbol at position n of the batch raises
AnalysisFails(n) ==
    analyze_symbol_crossovers(MockSymbols[n], Frame(call.kinds[n])).kind = "raise"

\* the elements of a list of [symbol, ...] that belong to the symbol
OfSymbol(list, symbol) == SelectSeq(list, LAMBDA e : e.symbol = symbol)

\* the batch without the symbols at the positions of `failing`
RECURSIVE Without(_, _, _)
Without(symbol_data, failing, k) ==
    IF k = 0 THEN <<>>
    ELSE IF k \in failing THEN Without(symbol_data, failing, k - 1)
    ELSE Append(Without(symbol_data, failing, k - 1), symbol_data[k])

\* C22: an error while analysing one symbol does not abort the batch:
\* detect_all_crossovers and calculate_moving_average_data skip that symbol,
\* which contributes no event at all, and the events of every other symbol
\* are those of the batch without the failing symbols.
C22_FailingSymbolSkipped ==
    Batched =>
        LET symbol_data == SymbolData(call.kinds)
            failing == {n \in DOMAIN call.kinds : AnalysisFails(n)}
            ma_failing == {n \in DOMAIN call.kinds : MovingAveragesRaise(Frame(call.kinds[n]))}
        IN  /\ \A n \in failing : OfSymbol(call.all_crossovers, MockSymbols[n]) = <<>>
            /\ \A n \in DOMAIN call.kinds \ failing :
                  OfSymbol(call.all_crossovers, MockSymbols[n])
                      = analyze_symbol_crossovers(MockSymbols[n], Frame(call.kinds[n])).events
            /\ call.all_crossovers
                  = detect_all_crossovers(Without(symbol_data, failing, Len(symbol_data)))
            /\ \A n \in ma_failing : OfSymbol(call.results, MockSymbols[n]) = <<>>
            /\ \A n \in DOMAIN call.kinds \ ma_failing :
                  OfSymbol(call.results, MockSymbols[n])
                      = <<[symbol |-> MockSymbols[n],
                           df |-> calculate_all_moving_averages(Frame(call.kinds[n]))]>>
            /\ call.results
                  = calculate_moving_average_data(Without(symbol_data, ma_failing, Len(symbol_data)))

\* C22 witness: a symbol whose analysis raises after its first pair gave an
\* event stands between two symbols with an event each, and the result
\* holds those two events only
C22_Witness ==
    /\ Batched
    /\ Len(call.kinds) = 3
    /\ AnalysisFails(2)
    /\ call.kinds[1] = "cross" /\ call.kinds[2] = "partial" /\ call.kinds[3] = "cross"
    /\ Len(call.all_crossovers) = 2
    /\ Len(call.results) = 3

\* the alerts of the history file created at most 24 hours before now
YoungInFile == {n \in DOMAIN alert_file.data :
                   now - AlertTime(alert_file.data[n]) <= Hours(24)}

\* C23: after load_alert_history on an existing readable history file,
\* sent_alerts is exactly the set of the ids of the history alerts created at
\* most 24 hours before now: the id of every younger alert is in it, and the
\* id of an older alert is in it only when a younger alert bears the same id.
C23_SentRebuiltFromRecent ==
    [][pc = "down" /\ pc' = "ready" /\ alert_file.kind = "json" =>
          /\ alert_history' = alert_file.data
          /\ sent_alerts' = {alert_file.data[n].id : n \in YoungInFile}
          /\ \A n \in YoungInFile : alert_file.data[n].id \in sent_alerts'
          /\ \A n \in DOMAIN alert_file.data \ YoungInFile :
                alert_file.data[n].id \in sent_alerts' =>
                    \E m \in YoungInFile : alert_file.data[m].id = alert_file.data[n].id]_vars

\* C23 witness: the history was loaded from a file that holds an alert older
\* than 24 hours and a younger one; the id of the younger is delivered, the
\* id of the older is not
C23_Witness ==
    /\ pc = "ready"
    /\ ~results.ran
    /\ alert_file.kind = "json"
    /\ alert_history = alert_file.data
    /\ sent_alerts = {alert_file.data[n].id : n \in YoungInFile}
    /\ sent_alerts # {}
    /\ \E n \in DOMAIN alert_file.data :
          n \notin YoungInFile /\ alert_file.data[n].id \notin sent_alerts

\* C23 as stated: after load_alert_history on an existing readable history
\* file, sent_alerts is the set of the ids of the history alerts created at
\* most 24 hours before now, the id of every younger alert is in it and the
\* id of no older alert is.
C23_Original ==
    [][pc = "down" /\ pc' = "ready" /\ alert_file.kind = "json" =>
          /\ sent_alerts' = {alert_file.data[n].id : n \in YoungInFile}
          /\ \A n \in DOMAIN alert_file.data :
                alert_file.data[n].id \in sent_alerts' <=> n \in YoungInFile]_vars

\* a request handler is in its loop or has answered
InHandler == call.pc \in {"loop", "done"}

CrossoversAnswered == call.pc = "done" /\ call.op = "crossovers"

\* the positions of the symbols that were fetched and had rows
FetchedWithData == {n \in DOMAIN call.fetched : call.upstream[n] # "none"}

\* C24: in the symbol loop of the crossovers and market-summary handlers no
\* symbol is fetched or analysed once more than 8 seconds have elapsed since
\* the loop started, and the response is still a success (HTTP 200,
\* success = true) that carries the results of the symbols processed before.
C24_DeadlineStopsLoop ==
    InHandler =>
        /\ \A n \in DOMAIN call.fetched : call.fetched[n].at <= Deadline
        /\ SummaryAnswered =>
              /\ call.response.status = 200 /\ call.response.success
              /\ Len(call.symbols_analysis) = Cardinality(FetchedWithData)
              /\ {call.symbols_analysis[n].symbol : n \in DOMAIN call.symbols_analysis}
                    = {call.fetched[n].symbol : n \in FetchedWithData}
              /\ call.response.processing_info.symbols_analyzed
                    = Cardinality(FetchedWithData)
              /\ call.response.technical_summary.total_symbols
                    = Cardinality(FetchedWithData)
        /\ CrossoversAnswered =>
              /\ call.response.status = 200 /\ call.response.success
              /\ call.response.processing_info.symbols_processed = Len(call.fetched)
              /\ call.response.summary.total_crossovers = Len(call.all_crossovers)

\* C24 witness: the market-summary handler answered after the deadline had
\* passed in its loop, with a symbol left unfetched and one analysed
C24_Witness ==
    /\ SummaryAnswered
    /\ call.since_loop > Deadline
    /\ Len(call.fetched) < Len(call.top_symbols_data)
    /\ call.symbols_analysis # <<>>
    /\ call.response.success
    /\ call.response.technical_summary.total_symbols = Len(call.symbols_analysis)

\* a call of _make_request has been made
Requested == call.pc = "serving" /\ call.last.key # ""

\* the entry the last call found for its key was younger than the TTL
FoundYoung ==
    /\ call.last.key \in DOMAIN call.last.cache
    /\ call.last.t - call.last.cache_timeout[call.last.key] < CacheDuration

\* C25: a call of _make_request that finds an entry younger than the TTL of
\* 300 s for its key returns it without contacting upstream; otherwise it
\* contacts upstream, a successful response is returned and replaces the
\* entry and its timestamp, an entry older than the TTL is returned only when
\* that request failed, the error propagates when the request fails and the
\* key has no entry, and a failed request never modifies the cache.
C25_CacheTtl ==
    Requested =>
        LET last == call.last
            key == last.key
            unchanged == call.cache = last.cache /\ call.cache_timeout = last.cache_timeout
        IN  /\ FoundYoung =>
                  ~last.contacted /\ ~last.raised /\ last.data = last.cache[key] /\ unchanged
            /\ ~FoundYoung => last.contacted
            /\ ~FoundYoung /\ last.upstream.ok =>
                  /\ ~last.raised /\ last.data = last.upstream.data
                  /\ call.cache[key] = last.upstream.data
                  /\ call.cache_timeout[key] = last.t
                  /\ \A k \in DOMAIN last.cache \ {key} :
                        call.cache[k] = last.cache[k]
                        /\ call.cache_timeout[k] = last.cache_timeout[k]
                  /\ DOMAIN call.cache = DOMAIN last.cache \cup {key}
            /\ ~FoundYoung /\ ~last.upstream.ok =>
                  /\ unchanged
                  /\ key \in DOMAIN last.cache => ~last.raised /\ last.data = last.cache[key]
                  /\ key \notin DOMAIN last.cache => last.raised

\* C25 witness: the last call found an entry of exactly the TTL, asked the
\* exchange, failed and returned the stale entry
C25_Witness ==
    /\ Requested
    /\ call.last.key \in DOMAIN call.last.cache
    /\ call.last.t - call.last.cache_timeout[call.last.key] = CacheDuration
    /\ call.last.contacted
    /\ ~call.last.upstream.ok
    /\ ~call.last.raised
    /\ call.last.data = call.last.cache[call.last.key]

\* C26: for every crossover event the default importance policy
\* (_classify_default_importance: score >= 6 HIGH, >= 3 MEDIUM, no EMA point)
\* assigns a tier that is not lower than the tier the pipeline policy
\* (classify_signal_importance: >= 7 HIGH, >= 4 MEDIUM, EMA + 1) assigns.
C26_DefaultNotLower ==
    Classified =>
        /\ ImportanceOrder(call.default_importance) >= ImportanceOrder(call.importance)
        /\ call.importance = "HIGH" => call.default_importance = "HIGH"
        /\ call.default_importance = "LOW" => call.importance = "LOW"

\* C26 witness: an EMA event of pipeline score 7 and default score 6 is HIGH
\* under both policies, where the default tiers applied to the pipeline's
\* thresholds would make it MEDIUM
C26_Witness ==
    /\ Classified
    /\ call.crossover.ma_type = "EMA"
    /\ call.importance_score = 7 /\ call.default_score = 6
    /\ call.importance = "HIGH" /\ call.default_importance = "HIGH"

\* C27: the crossovers and market-summary endpoints always report zero
\* crossovers: days is capped at 100, so the limit of the klines request is
\* min(days + 10, 1000) <= 110, every fetched series has fewer than 200 bars
\* and the serverless detect_crossovers returns an empty list for it.
C27_NoCrossoverReported ==
    call.pc \in {"loop", "done"} =>
        /\ call.days <= 100
        /\ KlinesLimit(call.days) <= 110
        /\ \A n \in DOMAIN call.fetched :
              call.fetched[n].rows <= KlinesLimit(call.days) /\ call.fetched[n].rows < 200
        /\ call.all_crossovers = <<>>
        /\ \A n \in DOMAIN call.symbols_analysis : call.symbols_analysis[n].crossovers = <<>>
        /\ CrossoversAnswered =>
              /\ call.response.summary.total_crossovers = 0
              /\ call.response.summary.golden_crosses = 0
              /\ call.response.summary.death_crosses = 0
              /\ call.response.crossovers.all = <<>>
        /\ SummaryAnswered =>
              \A key \in DOMAIN call.response.crossover_analysis :
                  call.response.crossover_analysis[key] = 0

\* C27 witness: a request for more than 100 days was answered after the
\* exchange, which holds more than 200 bars ending in a cross, gave the 110
\* bars of the limit for a symbol; no crossover is reported
C27_Witness ==
    /\ call.pc = "done"
    /\ call.op \in {"crossovers", "market-summary"}
    /\ call.days = 100
    /\ \E n \in DOMAIN call.fetched :
          call.upstream[n] = "long" /\ call.fetched[n].rows = 110
    /\ call.op = "crossovers" => call.response.summary.total_crossovers = 0
    /\ call.op = "market-summary" =>
          /\ call.symbols_analysis # <<>>
          /\ call.response.crossover_analysis.total_crossovers = 0

\* the entries of top_symbols_data whose symbols are in symbols_analysis, in
\* the order of top_symbols_data
AnalysedTop ==
    SelectSeq(call.top_symbols_data,
              LAMBDA s : \E n \in DOMAIN call.symbols_analysis :
                            call.symbols_analysis[n].symbol = s.symbol)

\* C28 as stated: in the market-summary endpoint total_volume_24h,
\* average_change_24h and the top gainers and losers are computed over exactly
\* the symbols of symbols_analysis, whatever symbols were skipped.
C28_StatsOverAnalysed ==
    SummaryAnswered =>
        LET overview == call.response.market_overview
            movers == call.response.top_movers
        IN  /\ overview.total_volume_24h = SumOf(AnalysedTop, "volume_24h")
            /\ overview.average_change_24h
                  = RoundDiv(100 * SumOf(AnalysedTop, "change_24h"),
                             Max(Len(AnalysedTop), 1))
            /\ {movers.gainers[n].symbol : n \in DOMAIN movers.gainers}
                  = {AnalysedTop[n].symbol : n \in DOMAIN AnalysedTop}
            /\ {movers.losers[n].symbol : n \in DOMAIN movers.losers}
                  = {AnalysedTop[n].symbol : n \in DOMAIN AnalysedTop}

\* ---- C29, C30: the retry wrapper

Retrying(name) == call.op = "retry" /\ call.func = name

RetryDone == call.op = "retry" /\ call.pc \in {"returned", "raised"}

\* C29: a call of the command-line client's get_historical_klines never
\* raises and never sleeps for a retry: it ends after one invocation that made
\* one request, and when the request failed or gave nothing the value
\* returned is the empty DataFrame.
C29_KlinesOneAttempt ==
    Retrying("get_historical_klines") =>
        /\ call.pc \in {"try", "returned"}
        /\ call.waits = <<>>
        /\ Len(call.answers) <= 1
        /\ call.pc = "returned" =>
             /\ Len(call.answers) = 1
             /\ Len(call.outcomes) = 1
             /\ call.result = IF call.answers[1] = "data" THEN Returned("data")
                              ELSE EmptyDataFrame

\* C29 witness: the request raised and the call returned the empty DataFrame
\* after its only invocation
C29_Witness ==
    /\ Retrying("get_historical_klines")
    /\ call.pc = "returned"
    /\ call.answers \in {<<"RequestException">>, <<"ValueError">>}
    /\ call.result = EmptyDataFrame

ListedFailure(r) == r.kind = "raise" /\ Catches(call.exceptions, r.exception)

RetryContract ==
    call.op = "retry" =>
        LET n == Len(call.outcomes)
        IN  /\ n <= call.max_retries + 1
            /\ \A i \in 1..(n - 1) : ListedFailure(call.outcomes[i])
            /\ Len(call.waits) = IF call.pc = "try" \/ n = 0 THEN n ELSE n - 1
            /\ \A i \in DOMAIN call.waits : call.waits[i] = call.delay * 2 ^ (i - 1)
            /\ call.pc = "sleep" => ListedFailure(call.outcomes[n]) /\ n <= call.max_retries
            /\ call.pc = "returned" =>
                 /\ n >= 1
                 /\ call.outcomes[n].kind # "raise"
                 /\ call.result = call.outcomes[n]
            /\ call.pc = "raised" =>
                 /\ n >= 1
                 /\ call.outcomes[n].kind = "raise"
                 /\ call.result = call.outcomes[n]
                 /\ ListedFailure(call.outcomes[n]) => n = call.max_retries + 1

\* C30: a wrapped call ends, after at most max_retries + 1 invocations; every
\* invocation but the last raised a listed exception and was followed by a
\* wait of delay * 2^attempt, there is no wait after the last; the call
\* returns what the first invocation that did not raise returned, raises at
\* once an exception that is not listed, and raises the last exception when
\* all max_retries + 1 invocations raised listed ones.
C30_RetryTerminates == [](RetryContract) /\ <>(RetryDone)

\* C30 witness: three or more invocations all raised listed exceptions, the
\* waits doubled from delay, and the last exception was raised
C30_Witness ==
    /\ call.op = "retry"
    /\ call.pc = "raised"
    /\ call.max_retries >= 2
    /\ Len(call.outcomes) = call.max_retries + 1
    /\ Len(call.waits) = call.max_retries
    /\ call.waits[2] = 2 * call.delay
    /\ call.result = Raise(call.answers[Len(call.answers)])

====
